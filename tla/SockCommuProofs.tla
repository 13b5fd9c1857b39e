--------------------------- MODULE SockCommuProofs ---------------------------
(***************************************************************************)
(* Proofs about SockCommu for any number of peers, slots and descriptors:  *)
(* first the tables (slots, descriptors, registrations, events), then what *)
(* is sent and received for which peer, that no event is missed, and that  *)
(* a connection is reported gone once.                                     *)
(* Two things are taken out, and stated in the theorems: a connection does *)
(* not fail after addconn has taken it (the run sock_late_failure shows    *)
(* what happens when it does), and flow_ does not wrap.                    *)
(***************************************************************************)
EXTENDS SockCommu, FiniteSetsExt, FiniteSetTheorems, SequenceTheorems,
        WellFoundedInduction, NaturalsInduction, TLAPS

-----------------------------------------------------------------------------
(* Numbers and queues                                                      *)

\* What is left of a queue without its first n elements.
LEMMA DropElements ==
    ASSUME NEW S, NEW q \in Seq(S), NEW n \in Nat
    PROVE  /\ SubSeq(q, n + 1, Len(q)) \in Seq(S)
           /\ Len(SubSeq(q, n + 1, Len(q))) = IF n <= Len(q) THEN Len(q) - n ELSE 0
           /\ \A i \in 1 .. Len(q) - n : SubSeq(q, n + 1, Len(q))[i] = q[i + n]
<1>1. \A i \in n + 1 .. Len(q) : q[i] \in S
  OBVIOUS
<1> QED BY <1>1, SubSeqProperties

\* The smallest of some natural numbers.
LEMMA LeastNat ==
    ASSUME NEW T, T \subseteq Nat, T # {}
    PROVE  Min(T) \in T /\ \A y \in T : Min(T) <= y
<1> DEFINE R == {ss \in Nat \X Nat : ss[1] < ss[2]}
<1>1. IsWellFoundedOn(R, Nat)
  BY NatLessThanWellFounded DEF OpToRel
<1>2. \A x, y \in Nat : y < x => <<y, x>> \in R
  OBVIOUS
<1> HIDE DEF R
<1>3. \E x \in T : \A y \in T : <<y, x>> \notin R
  BY <1>1, WFMin
<1>4. \A x, y \in T : <<y, x>> \notin R => x <= y
  BY <1>2
<1> QED BY <1>3, <1>4 DEF Min

\* A number below m is its own remainder.
LEMMA SmallMod ==
    ASSUME NEW x \in Nat, NEW m \in Nat, x < m
    PROVE  x % m = x
OBVIOUS

\* Remainders are below m.
LEMMA ModRange ==
    ASSUME NEW x \in Nat, NEW m \in Nat \ {0}
    PROVE  x % m \in 0 .. m - 1
OBVIOUS

\* addconn does not reach the point where flow_ wraps
NoWrap == flow + MaxConn + 1 < FlowMod

-----------------------------------------------------------------------------
(* Types                                                                   *)

Unit == Peer \X Nat

ConnType == [flow : Nat, fd : Nat, udp : BOOLEAN, addr : Peer \cup {NoSock}, idle : BOOLEAN,
             r : Seq(Peer), w : Seq(Unit)]

SockType == [st : {"new", "queued", "open", "gone"}, rx : Nat, sent : Nat,
             peer : {"up", "fin", "rst"}, full : BOOLEAN, got : Seq(Unit)]

WatchType == [on : BOOLEAN, fd : Nat, flow : Nat, out : BOOLEAN]

EventType == [kind : {"listen", "bound", "conn"}, fd : Nat, flow : Nat,
              ev : SUBSET {"in", "out"}, len : Nat]

TablesOK == /\ slots \in [Slot -> ConnType]
            /\ fdtab \in [Fd -> Peer \cup {NoSock}]
            /\ ep \in [Peer -> WatchType] /\ ready \in SUBSET Peer
            /\ sock \in [Peer -> SockType]

LoopOK == /\ flow \in Nat
          /\ pc \in {"wait", "batch", "recvdata", "recvudp"}
          /\ batch \in SUBSET EventType
          /\ cur \in EventType \cup {None}

UserOK == asked \in [Peer -> Nat] /\ given \in [Peer -> Nat] /\ bye \in [Flow -> Nat]

\* The types of the tables, the loop and what user code counts.
TypeInv == TablesOK /\ LoopOK /\ UserOK

-----------------------------------------------------------------------------
(* Slots, descriptors and registrations                                    *)

\* the peer at the other end of each slot
peerOf == [i \in Slot |-> Target(slots[i])]

Live == {i \in Slot : slots[i].flow # 0}

\* A free slot is as closeconn leaves it.
FreeClean == \A i \in Slot : slots[i].flow = 0 => slots[i] = FreeSlot

\* A slot holds a flow that was given out and belongs there, and has a peer of its
\* own; a connection has a descriptor, under which it is registered.
Placed == \A i \in Live :
            /\ slots[i].flow \in 1 .. flow /\ SlotOf(slots[i].flow) = i
            /\ peerOf[i] \in Peer /\ sock[peerOf[i]].st = "open"
            /\ slots[i].udp => slots[i].w = <<>>
            /\ ~slots[i].udp => /\ slots[i].fd \in Fd
                                /\ ep[peerOf[i]].on
                                /\ ep[peerOf[i]].flow = slots[i].flow
                                /\ ep[peerOf[i]].fd = slots[i].fd

\* Two slots have different peers; curconn counts the slots in use.
OwnPeer == \A i, j \in Live : peerOf[i] = peerOf[j] => i = j

\* Nothing is registered, or open, that no slot names.
NoLeak == /\ \A s \in Peer : ep[s].on => \E i \in Live : ~slots[i].udp /\ peerOf[i] = s
          /\ \A d \in Fd : fdtab[d] # NoSock => \E i \in Live : ~slots[i].udp /\ slots[i].fd = d
          /\ \A s \in ready : ep[s].on

Counted == curconn = Cardinality(Live)

\* the events of connections the thread has not dealt with
todo == {e \in batch \cup ({cur} \ {None}) : e.kind = "conn"}

\* An event is of a connection that was, or is, under its flow; one for each.
EventsOK == /\ \A e \in todo : /\ e.flow \in 1 .. flow
                               /\ Found(e.flow) => ~slots[SlotOf(e.flow)].udp
                                                   /\ slots[SlotOf(e.flow)].fd = e.fd
            /\ \A e1, e2 \in todo : e1.flow = e2.flow => e1 = e2
            /\ cur \notin batch
            /\ pc = "wait" => batch = {} /\ cur = None
            /\ pc = "recvdata" => cur \in todo

\* The tables agree with each other; and with the events that wait.
Tables == FreeClean /\ Placed /\ OwnPeer /\ NoLeak /\ Counted

OwnInv == Tables /\ EventsOK

-----------------------------------------------------------------------------
(* What a step does to the tables                                          *)

\* the peers whose connections go
Leaving(gone) == {peerOf[i] : i \in gone}

\* The connections in the slots `gone' go, with all that is theirs, and the others keep
\* their flow, descriptor and registration; none is added.
Reduced(gone) ==
    /\ gone \subseteq Live /\ flow' \in Nat /\ flow <= flow'
    /\ \A i \in gone : slots'[i] = FreeSlot
    /\ \A i \in Slot \ gone :
         /\ slots'[i].flow = slots[i].flow /\ slots'[i].fd = slots[i].fd
         /\ slots'[i].udp = slots[i].udp /\ slots'[i].addr = slots[i].addr
         /\ slots[i].flow = 0 => slots'[i] = slots[i]
         /\ slots[i].udp => slots'[i].w = slots[i].w
    /\ \A d \in Fd : fdtab'[d] = IF \E i \in gone : ~slots[i].udp /\ slots[i].fd = d
                                 THEN NoSock ELSE fdtab[d]
    /\ \A s \in Peer :
         IF s \in Leaving(gone)
         THEN ~ep'[s].on /\ s \notin ready'
         ELSE /\ ep'[s].on = ep[s].on
              /\ ep[s].on => ep'[s].flow = ep[s].flow /\ ep'[s].fd = ep[s].fd
              /\ s \in ready' => ep'[s].on
              /\ sock[s].st = "open" => sock'[s].st = "open"
    /\ curconn' = curconn - Cardinality(gone)

\* Peer s gets the free slot of flow f, and descriptor d unless it sent a datagram.
Added(f, d, s) ==
    /\ f \in flow + 1 .. flow' /\ flow' \in Nat
    /\ slots[SlotOf(f)].flow = 0
    /\ s \in Peer /\ sock[s].st \in {"new", "queued"} /\ sock'[s].st = "open"
    /\ \A x \in Peer \ {s} : sock'[x] = sock[x] /\ ep'[x] = ep[x]
    /\ LET c == slots'[SlotOf(f)]
       IN  /\ c.flow = f /\ c.fd = d /\ c.w = <<>>
           /\ c.udp <=> s \in Udp
           /\ s \in Udp => c.addr = s
    /\ \A j \in Slot \ {SlotOf(f)} : slots'[j] = slots[j]
    /\ IF s \in Udp
       THEN UNCHANGED <<fdtab, ep, ready>>
       ELSE /\ d \in FreeFd
            /\ fdtab' = [fdtab EXCEPT ![d] = s]
            /\ ep'[s].on /\ ep'[s].flow = f /\ ep'[s].fd = d
            /\ ready' \subseteq ready \cup {s}
    /\ curconn' = curconn + 1

TableStep == \/ \E gone \in SUBSET Slot : Reduced(gone)
             \/ \E f \in Nat, d \in Nat, s \in Peer : Added(f, d, s)

\* An event is taken, and what is left of it is the event in work; or none is.
BatchStep ==
    \/ /\ UNCHANGED <<batch, cur>>
       /\ \/ pc' \in {pc, "batch"}
          \/ pc' = "wait" /\ batch = {} /\ cur = None
    \/ \E e \in Events :
         /\ Taken(e) /\ pc' \in {"batch", "recvudp", "recvdata"}
         /\ pc' = "recvdata" => cur' # None
         /\ cur' # None => e.kind = "conn" /\ cur'.kind = "conn"
                           /\ cur'.flow = e.flow /\ cur'.fd = e.fd

\* A flow that was given out names the connection it named before, or none.
FlowsKept ==
    /\ flow' \in Nat /\ flow <= flow'
    /\ \A f \in 1 .. flow : Found(f)' =>
         /\ Found(f)
         /\ slots'[SlotOf(f)].fd = slots[SlotOf(f)].fd
         /\ slots'[SlotOf(f)].udp = slots[SlotOf(f)].udp
         /\ peerOf'[SlotOf(f)] = peerOf[SlotOf(f)]

\* The slot of a flow.
LEMMA SlotRange == \A f \in Nat : SlotOf(f) \in Slot
BY SizeAssumption, ModRange DEF SlotOf, Slot

\* addconn goes on from flow_, and stops at a free slot if there is one.
LEMMA NewFlow ==
    ASSUME TypeInv, NoWrap
    PROVE  /\ NextFlow = flow + 1
           /\ AddConn(NextFlow).flow \in flow + 1 .. flow + 1 + MaxConn
           /\ AddConn(NextFlow).flow \in Flow
           /\ AddConn(NextFlow).ok => slots[SlotOf(AddConn(NextFlow).flow)].flow = 0
<1>1. flow \in Nat /\ MaxConn \in Nat \ {0} /\ FlowMod \in Nat /\ flow + MaxConn + 1 < FlowMod
  BY SizeAssumption DEF TypeInv, LoopOK, NoWrap
<1>2. NextFlow = flow + 1
  <2>1. (flow + 1) % FlowMod = flow + 1
    BY <1>1, SmallMod
  <2> QED BY <1>1, <2>1 DEF NextFlow
<1> DEFINE free == {k \in 0 .. MaxConn - 1 : slots[SlotOf((flow + 1 + k) % FlowMod)].flow = 0}
           m == IF free = {} THEN MaxConn ELSE Min(free)
<1>3. AddConn(NextFlow).ok = (free # {}) /\ AddConn(NextFlow).flow = (flow + 1 + m) % FlowMod
  BY <1>2 DEF AddConn
<1>4. free \subseteq 0 .. MaxConn - 1
  OBVIOUS
<1>5. free # {} => Min(free) \in free
  <2> HIDE DEF free
  <2>1. free \subseteq Nat
    BY <1>1, <1>4
  <2> QED BY <2>1, LeastNat
<1>6. m \in 0 .. MaxConn
  BY <1>1, <1>4, <1>5
<1>7. free # {} => slots[SlotOf((flow + 1 + m) % FlowMod)].flow = 0
  BY <1>5
<1> HIDE DEF free, m
<1>8. (flow + 1 + m) % FlowMod = flow + 1 + m
  BY <1>1, <1>6, SmallMod
<1>9. AddConn(NextFlow).flow = flow + 1 + m
  BY <1>3, <1>8
<1>10. flow + 1 + m \in flow + 1 .. flow + 1 + MaxConn /\ flow + 1 + m \in Flow
  BY <1>1, <1>6 DEF Flow
<1>11. AddConn(NextFlow).ok => slots[SlotOf(AddConn(NextFlow).flow)].flow = 0
  BY <1>3, <1>7
<1> QED BY <1>2, <1>9, <1>10, <1>11

\* The slot a flow finds is live, and the only one with the flow.
LEMMA FoundSlot ==
    ASSUME TypeInv, Placed, NEW f \in Nat, Found(f)
    PROVE  /\ SlotOf(f) \in Live /\ slots[SlotOf(f)].flow = f /\ f \in 1 .. flow
           /\ \A i \in Slot : slots[i].flow = f => i = SlotOf(f)
<1>1. SlotOf(f) \in Slot /\ f # 0
  BY SlotRange DEF Found
<1>2. SlotOf(f) \in Live /\ slots[SlotOf(f)].flow = f
  BY <1>1 DEF Found, Live
<1> QED BY <1>1, <1>2 DEF Placed, Live

\* Slots, and peers, are finite and have a type.
LEMMA LiveType ==
    ASSUME TypeInv
    PROVE  /\ IsFiniteSet(Live) /\ Live \subseteq Slot /\ Cardinality(Live) \in Nat
           /\ peerOf \in [Slot -> Peer \cup {NoSock}]
           /\ \A i \in Slot : peerOf[i] = IF slots[i].udp THEN slots[i].addr
                                          ELSE IF slots[i].fd \in Fd THEN fdtab[slots[i].fd] ELSE NoSock
<1>1. IsFiniteSet(Slot)
  BY FS_Interval, SizeAssumption DEF Slot
<1>2. IsFiniteSet(Live) /\ Live \subseteq Slot /\ Cardinality(Live) \in Nat
  BY <1>1, FS_Subset, FS_CardinalityType DEF Live
<1>3. \A i \in Slot : peerOf[i] = IF slots[i].udp THEN slots[i].addr
                                   ELSE IF slots[i].fd \in Fd THEN fdtab[slots[i].fd] ELSE NoSock
  BY DEF peerOf, Target, SockAt
<1>4. \A i \in Slot : peerOf[i] \in Peer \cup {NoSock}
  BY <1>3 DEF TypeInv, TablesOK, ConnType
<1> QED BY <1>2, <1>3, <1>4 DEF peerOf

\* The peers after a step.
LEMMA PeerNext ==
    \A i \in Slot : peerOf'[i] = IF slots'[i].udp THEN slots'[i].addr
                                 ELSE IF slots'[i].fd \in Fd THEN fdtab'[slots'[i].fd] ELSE NoSock
BY DEF peerOf, Target, SockAt

\* The slots after connections have gone.
LEMMA ReducedSlots ==
    ASSUME TypeInv, TypeInv', Tables, NEW gone, Reduced(gone)
    PROVE  /\ Live' = Live \ gone
           /\ \A i \in Live \ gone : peerOf'[i] = peerOf[i]
           /\ \A i \in Live \ gone : peerOf[i] \notin Leaving(gone)
<1> USE DEF Tables
<1>1. \A i \in Slot : i \in Live' <=> slots'[i].flow # 0
  BY DEF Live
<1>2. gone \subseteq Live /\ \A i \in gone : slots'[i].flow = 0
  BY DEF Reduced, FreeSlot
<1>3. \A i \in Slot \ gone : slots'[i].flow = slots[i].flow
  BY DEF Reduced
<1>4. Live' = Live \ gone
  <2>1. Live' \subseteq Slot /\ Live \subseteq Slot /\ \A i \in Slot : i \in Live <=> slots[i].flow # 0
    BY DEF Live
  <2> QED BY <1>1, <1>2, <1>3, <2>1
<1>5. \A i \in Live \ gone : peerOf[i] \notin Leaving(gone)
  BY <1>2 DEF OwnPeer, Leaving
<1>6. ASSUME NEW i \in Live \ gone PROVE peerOf'[i] = peerOf[i]
  <2>1. i \in Slot /\ slots'[i].fd = slots[i].fd /\ slots'[i].udp = slots[i].udp
        /\ slots'[i].addr = slots[i].addr
    BY <1>4, LiveType DEF Reduced
  <2>2. /\ peerOf'[i] = IF slots'[i].udp THEN slots'[i].addr
                        ELSE IF slots'[i].fd \in Fd THEN fdtab'[slots'[i].fd] ELSE NoSock
        /\ peerOf[i] = IF slots[i].udp THEN slots[i].addr
                       ELSE IF slots[i].fd \in Fd THEN fdtab[slots[i].fd] ELSE NoSock
    BY <2>1, LiveType, PeerNext
  <2>3. CASE slots[i].udp
    BY <2>1, <2>2, <2>3
  <2>4. CASE ~slots[i].udp
    <3>1. slots[i].fd \in Fd /\ peerOf[i] = fdtab[slots[i].fd]
      BY <2>2, <2>4 DEF Placed
    <3>2. ASSUME NEW j \in gone, ~slots[j].udp, slots[j].fd = slots[i].fd PROVE FALSE
      <4>1. j \in Live /\ j \in Slot
        BY <1>2, LiveType
      <4>2. peerOf[j] = fdtab[slots[j].fd]
        BY <3>2, <4>1, LiveType DEF Placed
      <4> QED BY <1>5, <3>1, <3>2, <4>1, <4>2 DEF Leaving
    <3>3. fdtab'[slots[i].fd] = fdtab[slots[i].fd]
      BY <3>1, <3>2 DEF Reduced
    <3> QED BY <2>1, <2>2, <2>4, <3>1, <3>3
  <2> QED BY <2>3, <2>4
<1> QED BY <1>4, <1>5, <1>6

\* Closing leaves the tables in order.
LEMMA ReducedStep ==
    ASSUME TypeInv, TypeInv', Tables, NEW gone, Reduced(gone)
    PROVE  Tables' /\ FlowsKept
<1> USE DEF Tables
<1>1. /\ Live' = Live \ gone
      /\ \A i \in Live \ gone : peerOf'[i] = peerOf[i]
      /\ \A i \in Live \ gone : peerOf[i] \notin Leaving(gone)
      /\ gone \subseteq Live /\ Live \subseteq Slot
  BY ReducedSlots, LiveType DEF Reduced
<1>2. \A i \in Live \ gone : /\ slots'[i].flow = slots[i].flow /\ slots'[i].fd = slots[i].fd
                             /\ slots'[i].udp = slots[i].udp
                             /\ slots[i].udp => slots'[i].w = slots[i].w
  BY <1>1 DEF Reduced
<1>3. flow \in Nat /\ flow' \in Nat /\ flow <= flow'
  BY DEF TypeInv, LoopOK, Reduced
<1>4. FreeClean'
  <2>1. \A i \in Slot : slots'[i].flow = 0 => slots'[i] = FreeSlot
    BY DEF FreeClean, Reduced
  <2> QED BY <2>1 DEF FreeClean, FreeSlot
<1>5. Placed'
  <2> SUFFICES ASSUME NEW i \in Live \ gone
               PROVE  /\ slots'[i].flow \in 1 .. flow' /\ SlotOf(slots'[i].flow) = i
                      /\ peerOf'[i] \in Peer /\ sock'[peerOf'[i]].st = "open"
                      /\ slots'[i].udp => slots'[i].w = <<>>
                      /\ ~slots'[i].udp => /\ slots'[i].fd \in Fd
                                           /\ ep'[peerOf'[i]].on
                                           /\ ep'[peerOf'[i]].flow = slots'[i].flow
                                           /\ ep'[peerOf'[i]].fd = slots'[i].fd
    BY <1>1 DEF Placed, SlotOf
  <2>1. peerOf'[i] = peerOf[i] /\ peerOf[i] \in Peer /\ peerOf[i] \notin Leaving(gone)
    BY <1>1 DEF Placed
  <2>2. /\ sock[peerOf[i]].st = "open" => sock'[peerOf[i]].st = "open"
        /\ ep'[peerOf[i]].on = ep[peerOf[i]].on
        /\ ep[peerOf[i]].on => ep'[peerOf[i]].flow = ep[peerOf[i]].flow
                               /\ ep'[peerOf[i]].fd = ep[peerOf[i]].fd
    BY <2>1 DEF Reduced
  <2> QED BY <1>2, <1>3, <2>1, <2>2 DEF Placed
<1>6. OwnPeer'
  BY <1>1 DEF OwnPeer
<1>7. NoLeak'
  <2>1. ASSUME NEW s \in Peer, ep'[s].on PROVE \E i \in Live' : ~slots'[i].udp /\ peerOf'[i] = s
    <3>1. s \notin Leaving(gone) /\ ep[s].on
      BY <2>1 DEF Reduced
    <3>2. PICK i \in Live : ~slots[i].udp /\ peerOf[i] = s
      BY <3>1 DEF NoLeak
    <3>3. i \notin gone
      BY <3>1, <3>2 DEF Leaving
    <3> QED BY <1>1, <1>2, <3>2, <3>3
  <2>2. ASSUME NEW d \in Fd, fdtab'[d] # NoSock PROVE \E i \in Live' : ~slots'[i].udp /\ slots'[i].fd = d
    <3>1. fdtab[d] # NoSock /\ \A i \in gone : ~(~slots[i].udp /\ slots[i].fd = d)
      BY <2>2 DEF Reduced
    <3>2. PICK i \in Live : ~slots[i].udp /\ slots[i].fd = d
      BY <3>1 DEF NoLeak
    <3> QED BY <1>1, <1>2, <3>1, <3>2
  <2>3. \A s \in ready' : ep'[s].on
    BY DEF Reduced, TypeInv, TablesOK
  <2> QED BY <2>1, <2>2, <2>3 DEF NoLeak
<1>8. Counted'
  <2>1. IsFiniteSet(Live) /\ Cardinality(Live) \in Nat
    BY LiveType
  <2>2. Cardinality(Live \ gone) = Cardinality(Live) - Cardinality(Live \cap gone)
    BY <2>1, FS_Difference
  <2>3. Live \cap gone = gone
    BY <1>1
  <2> QED BY <1>1, <2>2, <2>3 DEF Counted, Reduced
<1>9. FlowsKept
  <2> SUFFICES ASSUME NEW f \in 1 .. flow, Found(f)'
               PROVE  /\ Found(f)
                      /\ slots'[SlotOf(f)].fd = slots[SlotOf(f)].fd
                      /\ slots'[SlotOf(f)].udp = slots[SlotOf(f)].udp
                      /\ peerOf'[SlotOf(f)] = peerOf[SlotOf(f)]
    BY <1>3 DEF FlowsKept
  <2>1. PICK i \in Slot : i = SlotOf(f)
    BY <1>3, SlotRange
  <2>2. f # 0 /\ slots'[i].flow = f
    BY <2>1 DEF Found, SlotOf
  <2>3. i \in Live'
    BY <2>2 DEF Live
  <2>4. i \in Live \ gone
    BY <1>1, <2>3
  <2>5. Found(f)
    BY <1>2, <2>1, <2>2, <2>4 DEF Found
  <2> QED BY <1>1, <1>2, <2>1, <2>4, <2>5
<1> QED BY <1>4, <1>5, <1>6, <1>7, <1>8, <1>9

\* The slots after a connection has been added.
LEMMA AddedSlots ==
    ASSUME TypeInv, TypeInv', Tables, NEW f, NEW d, NEW s, Added(f, d, s)
    PROVE  /\ f \in Nat /\ SlotOf(f) \in Slot \ Live
           /\ Live' = Live \cup {SlotOf(f)}
           /\ peerOf'[SlotOf(f)] = s
           /\ \A i \in Live : slots'[i] = slots[i] /\ peerOf'[i] = peerOf[i] /\ peerOf[i] # s
<1> USE DEF Tables
<1>1. f \in Nat /\ f # 0 /\ s \in Peer
  BY DEF Added, TypeInv, LoopOK
<1>2. PICK k \in Slot : k = SlotOf(f)
  BY <1>1, SlotRange
<1>3. /\ slots[k].flow = 0 /\ slots'[k].flow = f
      /\ \A j \in Slot \ {k} : slots'[j] = slots[j]
  BY <1>2 DEF Added
<1>4. k \notin Live /\ Live' = Live \cup {k}
  <2>1. \A i : i \in Live' <=> i \in Slot /\ slots'[i].flow # 0
    BY DEF Live
  <2>2. \A i : i \in Live <=> i \in Slot /\ slots[i].flow # 0
    BY DEF Live
  <2> QED BY <1>1, <1>3, <2>1, <2>2
<1>5. peerOf'[k] = s
  <2>1. peerOf'[k] = IF slots'[k].udp THEN slots'[k].addr
                     ELSE IF slots'[k].fd \in Fd THEN fdtab'[slots'[k].fd] ELSE NoSock
    BY PeerNext
  <2>2. CASE s \in Udp
    BY <1>2, <2>1, <2>2 DEF Added
  <2>3. CASE s \notin Udp
    <3>1. slots'[k].fd = d /\ ~slots'[k].udp /\ d \in Fd /\ fdtab' = [fdtab EXCEPT ![d] = s]
      BY <1>2, <2>3 DEF Added, FreeFd
    <3>2. fdtab'[d] = s
      BY <3>1 DEF TypeInv, TablesOK
    <3> QED BY <2>1, <3>1, <3>2
  <2> QED BY <2>2, <2>3
<1>6. ASSUME NEW i \in Live PROVE slots'[i] = slots[i] /\ peerOf'[i] = peerOf[i] /\ peerOf[i] # s
  <2>1. i \in Slot /\ slots'[i] = slots[i] /\ peerOf[i] \in Peer
    BY <1>3, <1>4, LiveType DEF Placed
  <2>2. peerOf[i] # s
    BY DEF Placed, Added
  <2>3. /\ peerOf'[i] = IF slots[i].udp THEN slots[i].addr
                        ELSE IF slots[i].fd \in Fd THEN fdtab'[slots[i].fd] ELSE NoSock
        /\ peerOf[i] = IF slots[i].udp THEN slots[i].addr
                       ELSE IF slots[i].fd \in Fd THEN fdtab[slots[i].fd] ELSE NoSock
    BY <2>1, LiveType, PeerNext
  <2>4. ASSUME ~slots[i].udp PROVE fdtab'[slots[i].fd] = fdtab[slots[i].fd]
    <3>1. slots[i].fd \in Fd /\ fdtab[slots[i].fd] # NoSock
      BY <2>1, <2>3, <2>4, PeerAssumption DEF Placed
    <3>2. fdtab' = fdtab \/ (d \in FreeFd /\ fdtab' = [fdtab EXCEPT ![d] = s])
      BY DEF Added
    <3> QED BY <3>1, <3>2 DEF FreeFd, TypeInv, TablesOK
  <2> QED BY <2>1, <2>2, <2>3, <2>4
<1> QED BY <1>1, <1>2, <1>4, <1>5, <1>6

\* Adding leaves the tables in order.
LEMMA AddedStep ==
    ASSUME TypeInv, TypeInv', Tables, NEW f, NEW d, NEW s, Added(f, d, s)
    PROVE  Tables' /\ FlowsKept
<1> USE DEF Tables
<1>1. PICK k \in Slot : k = SlotOf(f)
  BY AddedSlots
<1>2. /\ f \in Nat /\ k \notin Live /\ Live' = Live \cup {k} /\ peerOf'[k] = s
      /\ \A i \in Live : slots'[i] = slots[i] /\ peerOf'[i] = peerOf[i] /\ peerOf[i] # s
  BY <1>1, AddedSlots
<1>3. /\ f \in flow + 1 .. flow' /\ flow' \in Nat /\ flow \in Nat
      /\ s \in Peer /\ sock[s].st \in {"new", "queued"} /\ sock'[s].st = "open"
      /\ \A x \in Peer \ {s} : sock'[x] = sock[x] /\ ep'[x] = ep[x]
      /\ slots[k].flow = 0 /\ slots'[k].flow = f /\ slots'[k].fd = d /\ slots'[k].w = <<>>
      /\ (slots'[k].udp <=> s \in Udp)
      /\ \A j \in Slot \ {k} : slots'[j] = slots[j]
  BY <1>1 DEF Added, TypeInv, LoopOK
<1>4. s \notin Udp => /\ d \in Fd /\ fdtab[d] = NoSock /\ fdtab' = [fdtab EXCEPT ![d] = s]
                      /\ ep'[s].on /\ ep'[s].flow = f /\ ep'[s].fd = d
                      /\ ready' \subseteq ready \cup {s}
  BY DEF Added, FreeFd
<1>5. s \in Udp => UNCHANGED <<fdtab, ep, ready>>
  BY DEF Added
<1>6. FreeClean'
  <2>1. \A i \in Slot : slots'[i].flow = 0 => slots'[i] = FreeSlot
    BY <1>2, <1>3 DEF FreeClean
  <2> QED BY <2>1 DEF FreeClean, FreeSlot
<1>7. Placed'
  <2>1. ASSUME NEW i \in Live'
        PROVE  /\ slots'[i].flow \in 1 .. flow' /\ SlotOf(slots'[i].flow) = i
               /\ peerOf'[i] \in Peer /\ sock'[peerOf'[i]].st = "open"
               /\ slots'[i].udp => slots'[i].w = <<>>
               /\ ~slots'[i].udp => /\ slots'[i].fd \in Fd
                                    /\ ep'[peerOf'[i]].on
                                    /\ ep'[peerOf'[i]].flow = slots'[i].flow
                                    /\ ep'[peerOf'[i]].fd = slots'[i].fd
    <3>1. CASE i = k
      BY <1>1, <1>2, <1>3, <1>4, <3>1
    <3>2. CASE i \in Live
      <4>1. slots'[i] = slots[i] /\ peerOf'[i] = peerOf[i] /\ peerOf[i] \in Peer \ {s}
        BY <1>2, <3>2 DEF Placed
      <4>2. slots[i].flow \in 1 .. flow'
        BY <1>3, <3>2 DEF Placed
      <4> QED BY <1>3, <3>2, <4>1, <4>2 DEF Placed
    <3> QED BY <1>2, <3>1, <3>2
  <2> QED BY <2>1 DEF Placed, SlotOf
<1>8. OwnPeer'
  BY <1>2 DEF OwnPeer
<1>9. NoLeak'
  <2>1. ASSUME NEW x \in Peer, ep'[x].on PROVE \E i \in Live' : ~slots'[i].udp /\ peerOf'[i] = x
    <3>1. CASE x = s /\ s \notin Udp
      BY <1>2, <1>3, <3>1
    <3>2. CASE ep[x].on
      BY <1>2, <3>2 DEF NoLeak
    <3> QED BY <1>3, <1>5, <2>1, <3>1, <3>2
  <2>2. ASSUME NEW e \in Fd, fdtab'[e] # NoSock PROVE \E i \in Live' : ~slots'[i].udp /\ slots'[i].fd = e
    <3>1. CASE e = d /\ s \notin Udp
      BY <1>2, <1>3, <3>1
    <3>2. CASE fdtab[e] # NoSock
      BY <1>2, <3>2 DEF NoLeak
    <3> QED BY <1>4, <1>5, <2>2, <3>1, <3>2 DEF TypeInv, TablesOK
  <2>3. \A x \in ready' : ep'[x].on
    <3>1. \A x \in ready : ep[x].on /\ x \in Peer
      BY DEF NoLeak, TypeInv, TablesOK
    <3>2. s \notin ready
      <4> SUFFICES ASSUME s \in ready PROVE FALSE
        OBVIOUS
      <4> QED BY <1>2, <3>1 DEF NoLeak
    <3> QED BY <1>3, <1>4, <1>5, <3>1, <3>2
  <2> QED BY <2>1, <2>2, <2>3 DEF NoLeak
<1>10. Counted'
  <2>1. IsFiniteSet(Live) /\ Cardinality(Live) \in Nat
    BY LiveType
  <2>2. Cardinality(Live \cup {k}) = Cardinality(Live) + 1
    BY <1>2, <2>1, FS_AddElement
  <2> QED BY <1>2, <2>2 DEF Counted, Added
<1>11. FlowsKept
  <2> SUFFICES ASSUME NEW g \in 1 .. flow, Found(g)'
               PROVE  /\ Found(g)
                      /\ slots'[SlotOf(g)].fd = slots[SlotOf(g)].fd
                      /\ slots'[SlotOf(g)].udp = slots[SlotOf(g)].udp
                      /\ peerOf'[SlotOf(g)] = peerOf[SlotOf(g)]
    BY <1>3 DEF FlowsKept
  <2>1. PICK i \in Slot : i = SlotOf(g)
    BY <1>3, SlotRange
  <2>2. g # 0 /\ slots'[i].flow = g
    BY <2>1 DEF Found, SlotOf
  <2>3. i # k /\ slots'[i] = slots[i]
    BY <1>3, <2>1, <2>2
  <2>4. i \in Live
    BY <2>2, <2>3 DEF Live
  <2> QED BY <1>2, <2>1, <2>2, <2>3, <2>4 DEF Found
<1> QED BY <1>6, <1>7, <1>8, <1>9, <1>10, <1>11

-----------------------------------------------------------------------------
(* What send and sendfromcache return                                      *)

Prefix(out, all) == Len(out) <= Len(all) /\ \A k \in 1 .. Len(out) : out[k] = all[k]

Split(all, out, left) == /\ Prefix(out, all)
                         /\ Len(left) = Len(all) - Len(out)
                         /\ \A k \in 1 .. Len(left) : left[k] = all[Len(out) + k]

\* o has sent the first of `all', and keeps the others unless it is broken.
SentOf(o, all) == /\ o.out \in Seq(Unit) /\ o.w \in Seq(Unit)
                  /\ o.broken \in BOOLEAN /\ o.ret \in Nat
                  /\ Prefix(o.out, all)
                  /\ ~o.broken => Split(all, o.out, o.w)

\* The kernel takes a number of the units it is given.
LEMMA KSendType ==
    ASSUME NEW c, NEW n \in Nat, NEW b \in KSend(c, n)
    PROVE  b.n \in 0 .. n /\ b.err \in BOOLEAN
<1>1. b \in {[n |-> k, err |-> FALSE] : k \in 0 .. n} \cup {[n |-> 0, err |-> TRUE]}
  <2>1. CASE c.udp
    BY <2>1 DEF KSend
  <2>2. CASE ~c.udp /\ (Target(c) = NoSock \/ sock[Target(c)].peer = "rst")
    BY <2>2 DEF KSend
  <2>3. CASE ~c.udp /\ ~(Target(c) = NoSock \/ sock[Target(c)].peer = "rst")
    <3>1. CASE sock[Target(c)].full
      BY <2>3, <3>1 DEF KSend
    <3>2. CASE ~sock[Target(c)].full
      BY <2>3, <3>2 DEF KSend
    <3> QED BY <3>1, <3>2
  <2> QED BY <2>1, <2>2, <2>3
<1>2. CASE b = [n |-> 0, err |-> TRUE]
  BY <1>2
<1>3. CASE \E k \in 0 .. n : b = [n |-> k, err |-> FALSE]
  BY <1>3
<1> QED BY <1>1, <1>2, <1>3

\* The first units of a queue, and the others.
LEMMA TakeDrop ==
    ASSUME NEW S, NEW q \in Seq(S), NEW n \in 0 .. Len(q)
    PROVE  /\ Take(q, n) \in Seq(S) /\ Len(Take(q, n)) = n
           /\ \A k \in 1 .. n : Take(q, n)[k] = q[k]
           /\ Drop(q, n) \in Seq(S) /\ Len(Drop(q, n)) = Len(q) - n
           /\ \A k \in 1 .. Len(q) - n : Drop(q, n)[k] = q[k + n]
<1>1. Len(q) \in Nat /\ \A i \in 1 .. Len(q) : q[i] \in S
  BY ElementOfSeq
<1>2. Take(q, n) \in Seq(S) /\ Len(Take(q, n)) = n /\ \A k \in 1 .. n : Take(q, n)[k] = q[k]
  BY <1>1, SubSeqProperties DEF Take
<1>3. n \in Nat /\ n <= Len(q)
  BY <1>1
<1>4. /\ Drop(q, n) \in Seq(S) /\ Len(Drop(q, n)) = Len(q) - n
      /\ \A k \in 1 .. Len(q) - n : Drop(q, n)[k] = q[k + n]
  BY <1>3, DropElements DEF Drop
<1> QED BY <1>2, <1>4

\* What is sent and what is kept of two queues, when the first is cut.
LEMMA SplitFirst ==
    ASSUME NEW a \in Seq(Unit), NEW b \in Seq(Unit), NEW n \in 0 .. Len(a)
    PROVE  Split(a \o b, Take(a, n), Drop(a, n) \o b) /\ Drop(a, n) \o b \in Seq(Unit)
<1> DEFINE x == Take(a, n)
           y == Drop(a, n)
<1>1. /\ x \in Seq(Unit) /\ Len(x) = n /\ \A k \in 1 .. n : x[k] = a[k]
      /\ y \in Seq(Unit) /\ Len(y) = Len(a) - n /\ \A k \in 1 .. Len(a) - n : y[k] = a[k + n]
  BY TakeDrop
<1> HIDE DEF x, y
<1>2. /\ y \o b \in Seq(Unit) /\ Len(y \o b) = Len(a) - n + Len(b)
      /\ \A k \in 1 .. Len(y) + Len(b) : (y \o b)[k] = IF k <= Len(y) THEN y[k] ELSE b[k - Len(y)]
  <2>1. y \in Seq(Unit) /\ Len(y) = Len(a) - n
    BY <1>1
  <2>2. /\ y \o b \in Seq(Unit) /\ Len(y \o b) = Len(y) + Len(b)
        /\ \A k \in 1 .. Len(y) + Len(b) : (y \o b)[k] = IF k <= Len(y) THEN y[k] ELSE b[k - Len(y)]
    BY <2>1, ConcatProperties
  <2> QED BY <2>1, <2>2
<1>3. /\ Len(a \o b) = Len(a) + Len(b) /\ Len(a) \in Nat /\ Len(b) \in Nat
      /\ \A k \in 1 .. Len(a) + Len(b) : (a \o b)[k] = IF k <= Len(a) THEN a[k] ELSE b[k - Len(a)]
  BY ConcatProperties
<1> DEFINE u == a \o b
           v == y \o b
<1>4. ASSUME NEW k \in 1 .. Len(v) PROVE v[k] = u[n + k]
  <2>1. n + k \in 1 .. Len(a) + Len(b) /\ k \in 1 .. Len(y) + Len(b)
    BY <1>1, <1>2, <1>3
  <2>2. CASE k <= Len(y)
    <3>1. n + k <= Len(a) /\ k + n = n + k /\ k \in 1 .. Len(a) - n
      BY <1>1, <1>3, <2>2
    <3> QED BY <1>1, <1>2, <1>3, <2>1, <2>2, <3>1
  <2>3. CASE ~(k <= Len(y))
    <3>1. ~(n + k <= Len(a)) /\ n + k - Len(a) = k - Len(y)
      BY <1>1, <1>3, <2>3
    <3> QED BY <1>2, <1>3, <2>1, <2>3, <3>1, SMTT(30)
  <2> QED BY <2>2, <2>3
<1>5. \A k \in 1 .. n : x[k] = u[k]
  BY <1>1, <1>3
<1> HIDE DEF u, v
<1>6. Split(u, x, v)
  <2>1. Len(u) = Len(a) + Len(b) /\ Len(v) = Len(a) - n + Len(b) /\ Len(x) = n
    BY <1>1, <1>2, <1>3 DEF u, v
  <2>2. Len(x) <= Len(u) /\ Len(v) = Len(u) - Len(x)
    BY <1>3, <2>1
  <2> QED BY <1>4, <1>5, <2>1, <2>2 DEF Split, Prefix
<1> QED BY <1>2, <1>6 DEF u, v, x, y

\* The same, when the first has been sent and the second is cut.
LEMMA SplitSecond ==
    ASSUME NEW a \in Seq(Unit), NEW b \in Seq(Unit), NEW n \in 0 .. Len(b)
    PROVE  Split(a \o b, a \o Take(b, n), Drop(b, n)) /\ a \o Take(b, n) \in Seq(Unit)
<1> DEFINE x == Take(b, n)
           y == Drop(b, n)
<1>1. /\ x \in Seq(Unit) /\ Len(x) = n /\ \A k \in 1 .. n : x[k] = b[k]
      /\ y \in Seq(Unit) /\ Len(y) = Len(b) - n /\ \A k \in 1 .. Len(b) - n : y[k] = b[k + n]
  BY TakeDrop
<1> HIDE DEF x, y
<1>2. /\ a \o x \in Seq(Unit) /\ Len(a \o x) = Len(a) + n
      /\ \A k \in 1 .. Len(a) + Len(x) : (a \o x)[k] = IF k <= Len(a) THEN a[k] ELSE x[k - Len(a)]
  BY <1>1, ConcatProperties
<1>3. /\ Len(a \o b) = Len(a) + Len(b) /\ Len(a) \in Nat /\ Len(b) \in Nat
      /\ \A k \in 1 .. Len(a) + Len(b) : (a \o b)[k] = IF k <= Len(a) THEN a[k] ELSE b[k - Len(a)]
  BY ConcatProperties
<1> DEFINE u == a \o b
           v == a \o x
<1>4. ASSUME NEW k \in 1 .. Len(v) PROVE v[k] = u[k]
  <2>1. k \in 1 .. Len(a) + Len(x) /\ k \in 1 .. Len(a) + Len(b)
    BY <1>1, <1>2, <1>3
  <2>2. ~(k <= Len(a)) => k - Len(a) \in 1 .. n
    BY <1>2, <1>3
  <2> QED BY <1>1, <1>2, <1>3, <2>1, <2>2
<1>5. ASSUME NEW k \in 1 .. Len(y) PROVE y[k] = u[Len(v) + k]
  <2>1. /\ Len(v) + k \in 1 .. Len(a) + Len(b) /\ ~(Len(v) + k <= Len(a))
        /\ Len(v) + k - Len(a) = k + n /\ k \in 1 .. Len(b) - n
    BY <1>1, <1>2, <1>3
  <2>2. u[Len(v) + k] = b[Len(v) + k - Len(a)]
    BY <1>3, <2>1
  <2>3. y[k] = b[k + n]
    BY <1>1, <2>1
  <2> QED BY <2>1, <2>2, <2>3
<1>6. Len(v) <= Len(u) /\ Len(y) = Len(u) - Len(v)
  BY <1>1, <1>2, <1>3
<1> HIDE DEF u, v
<1>7. Split(u, v, y)
  BY <1>4, <1>5, <1>6 DEF Split, Prefix
<1> QED BY <1>2, <1>7 DEF u, v, x, y

\* sendfromcache sends of what is cached.
LEMMA FromCache ==
    ASSUME NEW c, c.w \in Seq(Unit), NEW o \in SendFromCache(c)
    PROVE  SentOf(o, c.w) /\ (~o.broken /\ c.w = <<>> => o.w = <<>>)
<1>1. CASE c.w = <<>>
  <2>1. o = [out |-> <<>>, w |-> <<>>, ret |-> 0, broken |-> FALSE]
    BY <1>1 DEF SendFromCache, Outcome
  <2>2. <<>> \in Seq(Unit) /\ Len(<<>>) = 0
    BY EmptySeq
  <2>3. Split(c.w, <<>>, <<>>)
    BY <1>1, <2>2 DEF Split, Prefix
  <2> QED BY <1>1, <2>1, <2>2, <2>3 DEF SentOf, Split
<1>2. CASE c.w # <<>>
  <2>1. PICK a \in KSend(c, Len(c.w)) : o = Outcome(Take(c.w, a.n), Drop(c.w, a.n), a.n, a.err)
    BY <1>2 DEF SendFromCache
  <2>2. a.n \in 0 .. Len(c.w) /\ a.err \in BOOLEAN
    BY KSendType
  <2> DEFINE q == c.w
             n == a.n
             x == Take(q, n)
             y == Drop(q, n)
  <2>3. q \in Seq(Unit) /\ n \in 0 .. Len(q)
    BY <2>2
  <2> HIDE DEF q, n
  <2>4. /\ x \in Seq(Unit) /\ Len(x) = n /\ \A k \in 1 .. n : x[k] = q[k]
        /\ y \in Seq(Unit) /\ Len(y) = Len(q) - n /\ \A k \in 1 .. Len(q) - n : y[k] = q[k + n]
    BY <2>3, TakeDrop
  <2>5. o.out = x /\ o.w = y /\ o.ret = n /\ o.broken = a.err
    BY <2>1 DEF Outcome, q, n
  <2> HIDE DEF x, y
  <2>6. \A k \in 1 .. Len(q) - n : k + n = n + k
    BY <2>3
  <2>7. Split(q, x, y)
    <3>1. Prefix(x, q)
      BY <2>3, <2>4 DEF Prefix
    <3>2. Len(y) = Len(q) - Len(x)
      BY <2>4
    <3>3. ASSUME NEW k \in 1 .. Len(y) PROVE y[k] = q[Len(x) + k]
      <4>1. k \in 1 .. Len(q) - n
        BY <2>4, <3>3
      <4>2. y[k] = q[k + n] /\ k + n = n + k
        BY <2>4, <2>6, <4>1
      <4> QED BY <2>4, <4>2
    <3> QED BY <3>1, <3>2, <3>3 DEF Split
  <2>8. SentOf(o, q)
    <3>1. Prefix(x, q)
      BY <2>7 DEF Split
    <3>2. Prefix(o.out, q) /\ Split(q, o.out, o.w)
      BY <2>5, <2>7, <3>1
    <3>3. o.out \in Seq(Unit) /\ o.w \in Seq(Unit) /\ o.broken \in BOOLEAN /\ o.ret \in Nat
      BY <2>2, <2>3, <2>4, <2>5
    <3> QED BY <3>2, <3>3 DEF SentOf
  <2>9. q = c.w
    BY DEF q
  <2> QED BY <1>2, <2>8, <2>9
<1> QED BY <1>1, <1>2

\* What is kept may be lost: the append may throw.
LEMMA KeptOf ==
    ASSUME NEW all, NEW out \in Seq(Unit), NEW left \in Seq(Unit), NEW ret \in Nat, NEW m \in Nat,
           Split(all, out, left), left # <<>> => ret < m,
           NEW o \in Kept(out, left, ret)
    PROVE  SentOf(o, all) /\ (~o.broken /\ o.w # <<>> => o.ret < m)
<1>1. \E x \in BOOLEAN : o = [out |-> out, w |-> left, ret |-> ret, broken |-> x]
  <2>1. CASE left = <<>>
    BY <2>1 DEF Kept, Outcome
  <2>2. CASE left # <<>>
    BY <2>2 DEF Kept, Outcome
  <2> QED BY <2>1, <2>2
<1>2. o.out = out /\ o.w = left /\ o.ret = ret /\ o.broken \in BOOLEAN
  BY <1>1
<1> QED BY <1>2 DEF SentOf, Split

\* Or the socket is broken.
LEMMA FailedOf ==
    ASSUME NEW all, NEW out \in Seq(Unit), NEW left \in Seq(Unit), Prefix(out, all),
           NEW o, o = [out |-> out, w |-> left, ret |-> 0, broken |-> TRUE]
    PROVE  SentOf(o, all) /\ o.broken
<1>1. o.out = out /\ o.w = left /\ o.ret \in Nat
  OBVIOUS
<1>2. o.broken /\ o.broken \in BOOLEAN
  OBVIOUS
<1> QED BY <1>1, <1>2 DEF SentOf

\* send sends of what is cached and, when that is gone, of what it is given.
LEMMA SendOf ==
    ASSUME NEW c, c.w \in Seq(Unit), NEW data \in Seq(Unit), data # <<>>, NEW o \in Send(c, data)
    PROVE  SentOf(o, c.w \o data) /\ (~o.broken /\ o.w # <<>> => o.ret < Len(data))
<1> DEFINE q == c.w
           all == q \o data
<1>1. q \in Seq(Unit) /\ Len(q) \in Nat /\ Len(data) \in Nat /\ Len(data) > 0
  BY LenProperties, EmptySeq
<1>2. /\ all \in Seq(Unit) /\ Len(all) = Len(q) + Len(data)
      /\ \A k \in 1 .. Len(q) + Len(data) : all[k] = IF k <= Len(q) THEN q[k] ELSE data[k - Len(q)]
  BY <1>1, ConcatProperties
<1> DEFINE Failed(out, left) == o = [out |-> out, w |-> left, ret |-> 0, broken |-> TRUE]
           First(n) == n \in 0 .. Len(q) /\ n < Len(q) /\ o \in Kept(Take(q, n), Drop(q, n) \o data, 0)
           Second(n) == n \in 0 .. Len(data) /\ o \in Kept(q \o Take(data, n), Drop(data, n), n)
<1>3. \/ Failed(<<>>, q) \/ Failed(q, <<>>)
      \/ \E n : First(n)
      \/ \E n : Second(n)
  <2> DEFINE cached == IF c.w = <<>> THEN {[n |-> 0, err |-> FALSE]} ELSE KSend(c, Len(c.w))
             tail == UNION {IF b.err THEN {Outcome(c.w, <<>>, 0, TRUE)}
                            ELSE Kept(c.w \o Take(data, b.n), Drop(data, b.n), b.n)
                              : b \in KSend(c, Len(data))}
             after(a) == IF a.err THEN {Outcome(<<>>, c.w, 0, TRUE)}
                         ELSE IF a.n < Len(c.w)
                         THEN Kept(Take(c.w, a.n), Drop(c.w, a.n) \o data, 0)
                         ELSE tail
  <2>1. \E a \in cached : o \in after(a)
    BY DEF Send
  <2>2. PICK a \in cached : o \in after(a)
    BY <2>1
  <2>3. a.n \in 0 .. Len(c.w) /\ a.err \in BOOLEAN
    <3>1. CASE c.w = <<>>
      <4>1. a = [n |-> 0, err |-> FALSE]
        BY <3>1
      <4>2. a.n = 0 /\ a.err \in BOOLEAN
        BY <4>1
      <4> QED BY <1>1, <4>2
    <3>2. CASE c.w # <<>>
      BY <3>2, <1>1, KSendType
    <3> QED BY <3>1, <3>2
  <2>4. CASE a.err
    BY <2>2, <2>4 DEF Outcome
  <2>5. CASE ~a.err /\ a.n < Len(c.w)
    <3>1. First(a.n)
      BY <2>2, <2>3, <2>5
    <3> QED BY <3>1
  <2>6. CASE ~a.err /\ ~(a.n < Len(c.w))
    <3>1. o \in tail
      BY <2>2, <2>6
    <3>2. PICK b \in KSend(c, Len(data)) :
            o \in IF b.err THEN {Outcome(c.w, <<>>, 0, TRUE)}
                  ELSE Kept(c.w \o Take(data, b.n), Drop(data, b.n), b.n)
      BY <3>1
    <3>3. b.n \in 0 .. Len(data) /\ b.err \in BOOLEAN
      BY <1>1, KSendType
    <3>4. CASE b.err
      BY <3>2, <3>4 DEF Outcome
    <3>5. CASE ~b.err
      <4>1. Second(b.n)
        BY <3>2, <3>3, <3>5
      <4> QED BY <4>1
    <3> QED BY <3>4, <3>5
  <2> QED BY <2>4, <2>5, <2>6
<1>4. <<>> \in Seq(Unit) /\ Len(<<>>) = 0
  BY EmptySeq
<1>5. CASE Failed(<<>>, q)
  <2>1. o = [out |-> <<>>, w |-> q, ret |-> 0, broken |-> TRUE]
    BY <1>5
  <2>2. Prefix(<<>>, all)
    BY <1>1, <1>2, <1>4 DEF Prefix
  <2> HIDE DEF all, q
  <2>3. SentOf(o, all) /\ o.broken
    BY <1>1, <1>4, <2>1, <2>2, FailedOf
  <2> QED BY <2>3 DEF all, q
<1>6. CASE Failed(q, <<>>)
  <2>1. o = [out |-> q, w |-> <<>>, ret |-> 0, broken |-> TRUE]
    BY <1>6
  <2> HIDE DEF all, q
  <2>2. Prefix(q, all)
    BY <1>1, <1>2 DEF Prefix
  <2>3. SentOf(o, all) /\ o.broken
    BY <1>1, <1>4, <2>1, <2>2, FailedOf
  <2> QED BY <2>3 DEF all, q
<1>7. CASE \E n : First(n)
  <2>1. PICK n : First(n)
    BY <1>7
  <2> DEFINE out == Take(q, n)
             left == Drop(q, n) \o data
  <2>2. /\ out \in Seq(Unit) /\ left \in Seq(Unit) /\ Split(all, out, left)
        /\ o \in Kept(out, left, 0)
    BY <1>1, <2>1, TakeDrop, SplitFirst
  <2> HIDE DEF out, left, all, q
  <2> DEFINE ret == 0
  <2>3. ret \in Nat /\ (left # <<>> => ret < Len(data)) /\ o \in Kept(out, left, ret)
    BY <1>1, <2>2
  <2> HIDE DEF ret
  <2>4. SentOf(o, all) /\ (~o.broken /\ o.w # <<>> => o.ret < Len(data))
    BY <1>1, <2>2, <2>3, KeptOf
  <2> QED BY <2>4 DEF all, q
<1>8. CASE \E n : Second(n)
  <2>1. PICK n : Second(n)
    BY <1>8
  <2> DEFINE out == q \o Take(data, n)
             left == Drop(data, n)
  <2>2. /\ out \in Seq(Unit) /\ left \in Seq(Unit) /\ Split(all, out, left)
        /\ o \in Kept(out, left, n) /\ Len(left) = Len(data) - n /\ n \in Nat /\ n <= Len(data)
    <3>1. n \in 0 .. Len(data) /\ n \in Nat /\ n <= Len(data) /\ o \in Kept(out, left, n)
      BY <1>1, <2>1
    <3>2. left \in Seq(Unit) /\ Len(left) = Len(data) - n
      BY <3>1, TakeDrop
    <3>3. out \in Seq(Unit) /\ Split(all, out, left)
      BY <1>1, <3>1, SplitSecond
    <3> QED BY <3>1, <3>2, <3>3
  <2> HIDE DEF out, left, all, q
  <2>3. left # <<>> => n < Len(data)
    BY <1>1, <2>2, EmptySeq
  <2>4. SentOf(o, all) /\ (~o.broken /\ o.w # <<>> => o.ret < Len(data))
    BY <1>1, <2>2, <2>3, KeptOf
  <2> QED BY <2>4 DEF all, q
<1> HIDE DEF Failed, First, Second
<1> QED BY <1>3, <1>5, <1>6, <1>7, <1>8

-----------------------------------------------------------------------------
(* What closing does                                                       *)

\* base is slots, but for what the caller of closeconn did to the caches.
SameConns(base) ==
    /\ base \in [Slot -> ConnType]
    /\ \A i \in Slot : /\ base[i].flow = slots[i].flow /\ base[i].fd = slots[i].fd
                       /\ base[i].udp = slots[i].udp /\ base[i].addr = slots[i].addr
                       /\ slots[i].flow = 0 => base[i] = slots[i]

\* sockets in which nothing was opened or closed; the slots of the flows F
SameSocks(sk) == sk \in [Peer -> SockType] /\ \A s \in Peer : sk[s].st = sock[s].st

Gone(F) == {i \in Live : slots[i].flow \in F}

\* what is left when the connections in the slots `gone' have been closed
ClosedOf(gone, base, sk) ==
    /\ \A i \in Slot : slots'[i] = IF i \in gone THEN FreeSlot ELSE base[i]
    /\ \A d \in Fd : fdtab'[d] = IF \E i \in gone : ~slots[i].udp /\ slots[i].fd = d
                                 THEN NoSock ELSE fdtab[d]
    /\ \A s \in Peer : sock'[s] = IF s \in Leaving(gone) THEN GoneSock(sk[s]) ELSE sk[s]
    /\ \A s \in Peer : ep'[s] = IF s \in Leaving(gone) THEN NotWatched ELSE ep[s]
    /\ ready' = ready \ Leaving(gone)
    /\ curconn' = curconn - Cardinality(gone)

\* A free slot, no registration and a new or closed socket are of their types.
LEMMA RecordTypes ==
    /\ FreeSlot \in ConnType /\ NotWatched \in WatchType /\ NewSock \in SockType
    /\ \A k \in SockType : GoneSock(k) \in SockType /\ GoneSock(k).st = "gone"
                           /\ GoneSock(k).got = k.got
<1>1. <<>> \in Seq(Unit) /\ <<>> \in Seq(Peer)
  BY EmptySeq
<1>2. FreeSlot \in ConnType /\ NotWatched \in WatchType /\ NewSock \in SockType
  BY <1>1 DEF FreeSlot, ConnType, NotWatched, WatchType, NewSock, SockType
<1>3. ASSUME NEW k \in SockType
      PROVE  GoneSock(k) \in SockType /\ GoneSock(k).st = "gone" /\ GoneSock(k).got = k.got
  BY DEF GoneSock, SockType
<1> QED BY <1>2, <1>3

\* closeconn releases what belongs to the connections, and nothing else.
LEMMA CloseEffect ==
    ASSUME TypeInv, Tables, NEW F, NEW base, NEW sk, SameConns(base), SameSocks(sk),
           CloseConn(F, base, sk)
    PROVE  ClosedOf(Gone(F), base, sk) /\ TablesOK'
<1> DEFINE gone == Closing(F, base)
<1>1. gone = Gone(F) /\ gone \subseteq Live /\ Live \subseteq Slot
  BY DEF SameConns, Closing, Gone, Live
<1>2. /\ \A i \in gone : i \in Slot /\ base[i].udp = slots[i].udp /\ base[i].fd = slots[i].fd
                         /\ base[i].addr = slots[i].addr
  BY <1>1 DEF SameConns
<1> DEFINE ds == {base[i].fd : i \in {j \in gone : ~base[j].udp}}
           over == {base[i].addr : i \in {j \in gone : base[j].udp}}
           closed == ({fdtab[d] : d \in ds} \ {NoSock}) \cup over
<1>3. /\ slots' = [i \in Slot |-> IF i \in gone THEN FreeSlot ELSE base[i]]
      /\ curconn' = curconn - Cardinality(gone)
      /\ fdtab' = [d \in Fd |-> IF d \in ds THEN NoSock ELSE fdtab[d]]
      /\ sock' = [s \in Peer |-> IF s \in closed THEN GoneSock(sk[s]) ELSE sk[s]]
      /\ ep' = [s \in Peer |-> IF s \in closed THEN NotWatched ELSE ep[s]]
      /\ ready' = ready \ closed
  BY DEF CloseConn, Release, CloseFds
<1>4. \A i \in gone : /\ peerOf[i] \in Peer /\ peerOf[i] # NoSock
                      /\ slots[i].udp => peerOf[i] = slots[i].addr
                      /\ ~slots[i].udp => slots[i].fd \in Fd /\ peerOf[i] = fdtab[slots[i].fd]
  BY <1>1, LiveType, PeerAssumption DEF Tables, Placed
<1>5. \A d : d \in ds <=> \E i \in gone : ~slots[i].udp /\ slots[i].fd = d
  BY <1>2
<1>6. closed = Leaving(gone)
  <2>1. \A s : s \in over <=> \E i \in gone : slots[i].udp /\ slots[i].addr = s
    BY <1>2
  <2>2. \A s : s \in {fdtab[d] : d \in ds} <=> \E i \in gone : ~slots[i].udp /\ fdtab[slots[i].fd] = s
    BY <1>5
  <2> HIDE DEF ds, over, gone
  <2>3. \A s : s \in Leaving(gone) <=> \E i \in gone : peerOf[i] = s
    BY DEF Leaving
  <2>4. \A s : s \in closed <=> s \in Leaving(gone)
    BY <1>4, <2>1, <2>2, <2>3
  <2> HIDE DEF closed
  <2> QED BY <2>4
<1> HIDE DEF gone, ds, over, closed
<1>7. ClosedOf(gone, base, sk)
  BY <1>3, <1>5, <1>6 DEF ClosedOf
<1>8. TablesOK'
  <2>1. slots' \in [Slot -> ConnType]
    BY <1>3, RecordTypes DEF SameConns
  <2>2. fdtab' \in [Fd -> Peer \cup {NoSock}]
    BY <1>3 DEF TypeInv, TablesOK
  <2>3. ep' \in [Peer -> WatchType] /\ ready' \in SUBSET Peer
    BY <1>3, RecordTypes DEF TypeInv, TablesOK
  <2>4. sock' \in [Peer -> SockType]
    BY <1>3, RecordTypes DEF SameSocks
  <2> QED BY <2>1, <2>2, <2>3, <2>4 DEF TablesOK, ConnType, WatchType, SockType, Unit
<1> QED BY <1>1, <1>7, <1>8

\* So the tables have fewer connections.
LEMMA CloseReduces ==
    ASSUME TypeInv, Tables, NEW gone, NEW base, NEW sk, SameConns(base), SameSocks(sk),
           gone \subseteq Live, \A i \in Slot \ gone : slots[i].udp => base[i].w = slots[i].w,
           ClosedOf(gone, base, sk), flow' \in Nat, flow <= flow'
    PROVE  Reduced(gone)
<1>1. \A i \in gone : slots'[i] = FreeSlot
  BY LiveType DEF ClosedOf
<1>2. \A i \in Slot \ gone :
         /\ slots'[i].flow = slots[i].flow /\ slots'[i].fd = slots[i].fd
         /\ slots'[i].udp = slots[i].udp /\ slots'[i].addr = slots[i].addr
         /\ slots[i].flow = 0 => slots'[i] = slots[i]
         /\ slots[i].udp => slots'[i].w = slots[i].w
  BY DEF ClosedOf, SameConns
<1>3. ASSUME NEW s \in Peer
      PROVE  IF s \in Leaving(gone)
             THEN ~ep'[s].on /\ s \notin ready'
             ELSE /\ ep'[s].on = ep[s].on
                  /\ ep[s].on => ep'[s].flow = ep[s].flow /\ ep'[s].fd = ep[s].fd
                  /\ s \in ready' => ep'[s].on
                  /\ sock[s].st = "open" => sock'[s].st = "open"
  <2>1. CASE s \in Leaving(gone)
    BY <2>1 DEF ClosedOf, NotWatched
  <2>2. CASE s \notin Leaving(gone)
    <3>1. ep'[s] = ep[s] /\ sock'[s] = sk[s] /\ (s \in ready' => s \in ready)
      BY <2>2 DEF ClosedOf
    <3>2. s \in ready => ep[s].on
      BY DEF Tables, NoLeak
    <3> QED BY <2>2, <3>1, <3>2 DEF SameSocks
  <2> QED BY <2>1, <2>2
<1> QED BY <1>1, <1>2, <1>3 DEF Reduced, ClosedOf

\* Nothing is registered for a socket that is not open.
LEMMA NotOpen ==
    ASSUME TypeInv, Tables, NEW s \in Peer, sock[s].st # "open"
    PROVE  ~ep[s].on /\ s \notin ready /\ \A i \in Live : peerOf[i] # s
BY DEF Tables, NoLeak, Placed

\* A socket is closed that no connection has yet.
LEMMA DropEffect ==
    ASSUME TypeInv, Tables, NEW s \in Peer, sock[s].st \in {"new", "queued"},
           CloseFds({}, {s}, sock), UNCHANGED connVars, flow' \in Nat, flow <= flow'
    PROVE  /\ Reduced({}) /\ TablesOK'
           /\ fdtab' = fdtab /\ ready' = ready \ {s}
           /\ \A x \in Peer : /\ sock'[x] = IF x = s THEN GoneSock(sock[x]) ELSE sock[x]
                              /\ ep'[x] = IF x = s THEN NotWatched ELSE ep[x]
<1>1. /\ slots' = slots /\ curconn' = curconn
      /\ fdtab' = [d \in Fd |-> fdtab[d]]
      /\ sock' = [x \in Peer |-> IF x = s THEN GoneSock(sock[x]) ELSE sock[x]]
      /\ ep' = [x \in Peer |-> IF x = s THEN NotWatched ELSE ep[x]]
      /\ ready' = ready \ {s}
  <2>1. {fdtab[d] : d \in {}} = {}
    OBVIOUS
  <2>2. ({fdtab[d] : d \in {}} \ {NoSock}) \cup {s} = {s}
    BY <2>1
  <2> QED BY <2>2 DEF CloseFds, connVars
<1>2. fdtab' = fdtab
  BY <1>1 DEF TypeInv, TablesOK
<1>3. TablesOK'
  <2>1. ep' \in [Peer -> WatchType] /\ sock' \in [Peer -> SockType]
    BY <1>1, RecordTypes DEF TypeInv, TablesOK
  <2> QED BY <1>1, <1>2, <2>1 DEF TypeInv, TablesOK, ConnType, WatchType, SockType, Unit
<1>4. ASSUME NEW x \in Peer
      PROVE  /\ ep'[x].on = ep[x].on
             /\ ep[x].on => ep'[x].flow = ep[x].flow /\ ep'[x].fd = ep[x].fd
             /\ x \in ready' => ep'[x].on
             /\ sock[x].st = "open" => sock'[x].st = "open"
  <2>1. CASE x = s
    BY <1>1, <2>1, NotOpen DEF NotWatched, TypeInv, TablesOK, WatchType
  <2>2. CASE x # s
    BY <1>1, <2>2 DEF Tables, NoLeak
  <2> QED BY <2>1, <2>2
<1>5. Reduced({})
  <2>1. Leaving({}) = {} /\ Cardinality({}) = 0
    BY FS_EmptySet DEF Leaving
  <2>2. curconn - 0 = curconn
    <3>1. curconn \in Nat
      BY LiveType DEF Tables, Counted
    <3> QED BY <3>1
  <2> QED BY <1>1, <1>2, <1>4, <2>1, <2>2 DEF Reduced
<1> QED BY <1>1, <1>2, <1>3, <1>5

-----------------------------------------------------------------------------
(* What the other steps do                                                 *)

\* The connections stay as they are, but for their caches.
LEMMA SteadyReduces ==
    ASSUME TypeInv, Tables,
           \A i \in Slot :
             /\ slots'[i].flow = slots[i].flow /\ slots'[i].fd = slots[i].fd
             /\ slots'[i].udp = slots[i].udp /\ slots'[i].addr = slots[i].addr
             /\ slots[i].flow = 0 => slots'[i] = slots[i]
             /\ slots[i].udp => slots'[i].w = slots[i].w,
           fdtab' = fdtab, curconn' = curconn, flow' \in Nat, flow <= flow',
           \A s \in Peer : /\ ep'[s].on = ep[s].on
                           /\ ep[s].on => ep'[s].flow = ep[s].flow /\ ep'[s].fd = ep[s].fd
                           /\ s \in ready' => ep'[s].on
                           /\ sock[s].st = "open" => sock'[s].st = "open"
    PROVE  Reduced({})
<1>1. Leaving({}) = {} /\ Cardinality({}) = 0
  BY FS_EmptySet DEF Leaving
<1>2. curconn - 0 = curconn
  <2>1. curconn \in Nat
    BY LiveType DEF Tables, Counted
  <2> QED BY <2>1
<1> QED BY <1>1, <1>2 DEF Reduced

\* The lowest free descriptor.
LEMMA LeastFd ==
    ASSUME FreeFd # {} PROVE Min(FreeFd) \in FreeFd /\ Min(FreeFd) \in Fd
<1>1. FreeFd \subseteq Fd /\ Fd \subseteq Nat
  BY SizeAssumption DEF FreeFd, Fd
<1>2. FreeFd \subseteq Nat
  BY <1>1
<1> QED BY <1>1, <1>2, LeastNat

\* addconn relies on closeconn for the rest of the slot.
LEMMA SlotTaken ==
    ASSUME TypeInv, FreeClean, NEW f \in Nat \ {0}, NEW d \in Nat, NEW s \in Peer,
           slots[SlotOf(f)].flow = 0
    PROVE  LET c == AddedSlot(f, d, s)[SlotOf(f)]
           IN  /\ AddedSlot(f, d, s) \in [Slot -> ConnType]
               /\ \A j \in Slot \ {SlotOf(f)} : AddedSlot(f, d, s)[j] = slots[j]
               /\ c.flow = f /\ c.fd = d /\ c.r = <<>> /\ c.w = <<>>
               /\ c.udp <=> s \in Udp
               /\ s \in Udp => c.addr = s
<1>1. PICK k \in Slot : k = SlotOf(f)
  BY SlotRange
<1> DEFINE u == s \in Udp
           a == IF s \in Udp THEN s ELSE NoSock
           y == slots[k]
           c == [y EXCEPT !.flow = f, !.fd = d, !.udp = u, !.addr = a, !.idle = FALSE]
<1>2. /\ slots \in [Slot -> ConnType] /\ y \in ConnType /\ y.r = <<>> /\ y.w = <<>>
      /\ u \in BOOLEAN /\ a \in Peer \cup {NoSock}
  <2>1. y = FreeSlot
    BY <1>1 DEF FreeClean
  <2>2. y.r = <<>> /\ y.w = <<>>
    BY <2>1 DEF FreeSlot
  <2>3. u \in BOOLEAN /\ a \in Peer \cup {NoSock}
    OBVIOUS
  <2>4. slots \in [Slot -> ConnType] /\ y \in ConnType
    BY DEF TypeInv, TablesOK
  <2> HIDE DEF u, a, y
  <2> QED BY <2>2, <2>3, <2>4
<1>3. AddedSlot(f, d, s) = [slots EXCEPT ![k] = c]
  <2>1. AddedSlot(f, d, s) = [slots EXCEPT ![k].flow = f, ![k].fd = d, ![k].udp = u,
                                           ![k].addr = a, ![k].idle = FALSE]
    BY <1>1 DEF AddedSlot
  <2> HIDE DEF u, a
  <2> QED BY <1>2, <2>1
<1> HIDE DEF u, a, y
<1>4. c \in ConnType /\ c.flow = f /\ c.fd = d /\ c.r = <<>> /\ c.w = <<>> /\ c.udp = u /\ c.addr = a
  BY <1>2 DEF ConnType
<1> HIDE DEF c
<1>5. /\ [slots EXCEPT ![k] = c] \in [Slot -> ConnType] /\ [slots EXCEPT ![k] = c][k] = c
      /\ \A j \in Slot \ {k} : [slots EXCEPT ![k] = c][j] = slots[j]
  BY <1>2, <1>4
<1>6. (c.udp <=> s \in Udp) /\ (s \in Udp => c.addr = s)
  BY <1>4 DEF u, a
<1> QED BY <1>1, <1>3, <1>4, <1>5, <1>6

\* epoll_ctl registers a socket.
LEMMA WatchEffect ==
    ASSUME TypeInv, NEW s \in Peer, NEW d \in Nat, NEW f \in Nat, NEW out, out \in BOOLEAN, NEW sk,
           Watch(s, d, f, out, sk)
    PROVE  /\ ep' \in [Peer -> WatchType] /\ ready' \in SUBSET Peer
           /\ ep'[s].on /\ ep'[s].fd = d /\ ep'[s].flow = f /\ ep'[s].out = out
           /\ \A x \in Peer \ {s} : ep'[x] = ep[x]
           /\ ready \subseteq ready' /\ ready' \subseteq ready \cup {s}
           /\ EventsOf(sk[s], out) # {} => s \in ready'
<1> DEFINE x == [on |-> TRUE, fd |-> d, flow |-> f, out |-> out]
<1>1. x \in WatchType /\ x.on /\ x.fd = d /\ x.flow = f /\ x.out = out
  BY DEF WatchType
<1>2. /\ ep' = [ep EXCEPT ![s] = x]
      /\ ready' = IF EventsOf(sk[s], out) # {} THEN ready \cup {s} ELSE ready
  BY DEF Watch
<1> HIDE DEF x
<1>3. ep \in [Peer -> WatchType] /\ ready \in SUBSET Peer
  BY DEF TypeInv, TablesOK
<1>4. ep' \in [Peer -> WatchType] /\ ep'[s] = x /\ \A y \in Peer \ {s} : ep'[y] = ep[y]
  BY <1>1, <1>2, <1>3
<1> QED BY <1>1, <1>2, <1>3, <1>4

\* A connection over a socket has been taken into the tables.
LEMMA AddEffect ==
    ASSUME TypeInv, Tables, NoWrap, NEW s \in Tcp \cup Back, sock[s].st \in {"new", "queued"},
           NEW k \in SockType, k.st = "open", NEW sk, FreeFd # {}, AddConn(NextFlow).ok,
           flow' = AddConn(NextFlow).flow,
           slots' = AddedSlot(AddConn(NextFlow).flow, Min(FreeFd), s),
           curconn' = curconn + 1,
           sock' = [sock EXCEPT ![s] = k],
           fdtab' = [fdtab EXCEPT ![Min(FreeFd)] = s],
           Watch(s, Min(FreeFd), AddConn(NextFlow).flow, FALSE, sk)
    PROVE  /\ TablesOK' /\ Added(AddConn(NextFlow).flow, Min(FreeFd), s)
           /\ slots'[SlotOf(AddConn(NextFlow).flow)].r = <<>>
           /\ ep'[s].out = FALSE
           /\ ready \subseteq ready' /\ ready' \subseteq ready \cup {s}
           /\ EventsOf(sk[s], FALSE) # {} => s \in ready'
<1> DEFINE f == AddConn(NextFlow).flow
           d == Min(FreeFd)
<1>1. f \in flow + 1 .. flow + 1 + MaxConn /\ slots[SlotOf(f)].flow = 0
  BY NewFlow
<1>2. flow \in Nat /\ MaxConn \in Nat /\ s \in Peer /\ s \notin Udp
  BY SizeAssumption, PeerAssumption DEF TypeInv, LoopOK, Peer
<1>3. d \in FreeFd /\ d \in Fd /\ d \in Nat
  BY LeastFd DEF Fd
<1> HIDE DEF f, d
<1>4. f \in Nat \ {0} /\ flow' = f /\ f \in flow + 1 .. flow'
  BY <1>1, <1>2 DEF f
<1>5. /\ slots' \in [Slot -> ConnType]
      /\ \A j \in Slot \ {SlotOf(f)} : slots'[j] = slots[j]
      /\ slots'[SlotOf(f)].flow = f /\ slots'[SlotOf(f)].fd = d
      /\ slots'[SlotOf(f)].r = <<>> /\ slots'[SlotOf(f)].w = <<>>
      /\ ~slots'[SlotOf(f)].udp
  <2>1. slots' = AddedSlot(f, d, s)
    BY DEF f, d
  <2> QED BY <1>1, <1>2, <1>3, <1>4, <2>1, SlotTaken DEF Tables
<1>6. /\ ep' \in [Peer -> WatchType] /\ ready' \in SUBSET Peer
      /\ ep'[s].on /\ ep'[s].fd = d /\ ep'[s].flow = f /\ ep'[s].out = FALSE
      /\ \A x \in Peer \ {s} : ep'[x] = ep[x]
      /\ ready \subseteq ready' /\ ready' \subseteq ready \cup {s}
      /\ EventsOf(sk[s], FALSE) # {} => s \in ready'
  <2> DEFINE x == [on |-> TRUE, fd |-> d, flow |-> f, out |-> FALSE]
  <2>1. x \in WatchType /\ x.on /\ x.fd = d /\ x.flow = f /\ x.out = FALSE
    BY <1>3, <1>4 DEF WatchType
  <2>2. /\ ep' = [ep EXCEPT ![s] = x]
        /\ ready' = IF EventsOf(sk[s], FALSE) # {} THEN ready \cup {s} ELSE ready
    BY <1>2 DEF Watch, f, d
  <2> HIDE DEF x
  <2>3. ep \in [Peer -> WatchType] /\ ready \in SUBSET Peer
    BY DEF TypeInv, TablesOK
  <2>4. ep' \in [Peer -> WatchType] /\ ep'[s] = x /\ \A y \in Peer \ {s} : ep'[y] = ep[y]
    BY <1>2, <2>1, <2>2, <2>3
  <2>5. /\ ready' \in SUBSET Peer /\ ready \subseteq ready' /\ ready' \subseteq ready \cup {s}
        /\ EventsOf(sk[s], FALSE) # {} => s \in ready'
    BY <1>2, <2>2, <2>3
  <2> QED BY <2>1, <2>4, <2>5
<1>7. /\ sock' \in [Peer -> SockType] /\ sock'[s].st = "open"
      /\ \A x \in Peer \ {s} : sock'[x] = sock[x]
  BY <1>2 DEF TypeInv, TablesOK
<1>8. fdtab' = [fdtab EXCEPT ![d] = s] /\ fdtab' \in [Fd -> Peer \cup {NoSock}]
  BY <1>2, <1>3 DEF TypeInv, TablesOK, d
<1>9. TablesOK'
  BY <1>5, <1>6, <1>7, <1>8 DEF TablesOK, ConnType, WatchType, SockType, Unit
<1>10. Added(f, d, s)
  <2>3. ready' \subseteq ready \cup {s}
    BY <1>6
  <2> QED BY <1>1, <1>2, <1>3, <1>4, <1>5, <1>6, <1>7, <1>8, <2>3 DEF Added, f
<1>11. slots'[SlotOf(f)].r = <<>> /\ ep'[s].out = FALSE
  BY <1>5, <1>6
<1> QED BY <1>6, <1>9, <1>10, <1>11 DEF f, d

-----------------------------------------------------------------------------
(* The events                                                              *)

LEMMA EventTypes ==
    ASSUME TypeInv
    PROVE  /\ None \notin EventType
           /\ \A e \in Events : e \in EventType
           /\ \A e \in todo : e \in EventType /\ e.kind = "conn" /\ e.flow \in Nat
           /\ todo \subseteq batch \cup {cur}
           /\ \A e \in batch : e.kind = "conn" => e \in todo
           /\ cur # None /\ cur.kind = "conn" => cur \in todo
<1>1. None \notin EventType
  BY LoopAssumption DEF EventType
<1>2. batch \subseteq EventType /\ cur \in EventType \cup {None}
  BY DEF TypeInv, LoopOK
<1>3. ASSUME NEW e \in Events PROVE e \in EventType
  BY <1>2, <1>3 DEF Events
<1>4. ASSUME NEW e \in todo PROVE e \in EventType /\ e.kind = "conn" /\ e.flow \in Nat
  <2>1. e \in EventType /\ e.kind = "conn"
    BY <1>2 DEF todo
  <2> QED BY <2>1 DEF EventType
<1>5. todo \subseteq batch \cup {cur} /\ \A e \in batch : e.kind = "conn" => e \in todo
  BY <1>1, <1>2 DEF todo
<1>6. cur # None /\ cur.kind = "conn" => cur \in todo
  BY DEF todo
<1> QED BY <1>1, <1>3, <1>4, <1>5, <1>6

\* Handling events leaves those of other connections alone.
LEMMA EventsKept ==
    ASSUME TypeInv, TypeInv', EventsOK, FlowsKept, BatchStep
    PROVE  EventsOK'
<1> DEFINE Own(e) == /\ e.flow \in 1 .. flow'
                     /\ Found(e.flow)' => ~slots'[SlotOf(e.flow)].udp
                                          /\ slots'[SlotOf(e.flow)].fd = e.fd
<1>0. flow \in Nat /\ flow' \in Nat /\ flow <= flow'
  BY DEF FlowsKept, TypeInv, LoopOK
<1>1. ASSUME NEW e \in todo PROVE Own(e)
  <2>1. e.flow \in 1 .. flow /\ e.flow \in 1 .. flow'
    BY <1>0 DEF EventsOK
  <2> QED BY <2>1 DEF FlowsKept, EventsOK
<1>2. SUFFICES /\ \A e \in todo' : Own(e)
               /\ \A e1, e2 \in todo' : e1.flow = e2.flow => e1 = e2
               /\ cur' \notin batch'
               /\ pc' = "wait" => batch' = {} /\ cur' = None
               /\ pc' = "recvdata" => cur' \in todo'
  BY DEF EventsOK, Found, SlotOf
<1>3. CASE /\ UNCHANGED <<batch, cur>>
           /\ \/ pc' \in {pc, "batch"}
              \/ pc' = "wait" /\ batch = {} /\ cur = None
  <2>1. todo' = todo
    BY <1>3 DEF todo
  <2> HIDE DEF Own
  <2>2. /\ \A e \in todo' : Own(e)
        /\ \A e1, e2 \in todo' : e1.flow = e2.flow => e1 = e2
        /\ cur' \notin batch'
    BY <1>1, <1>3, <2>1 DEF EventsOK
  <2>3. /\ pc' = "wait" => batch' = {} /\ cur' = None
        /\ pc' = "recvdata" => cur' \in todo'
    BY <1>3, <2>1 DEF EventsOK
  <2> QED BY <2>2, <2>3
<1>4. ASSUME NEW e \in Events, Taken(e), pc' \in {"batch", "recvudp", "recvdata"},
             pc' = "recvdata" => cur' # None,
             cur' # None => e.kind = "conn" /\ cur'.kind = "conn"
                            /\ cur'.flow = e.flow /\ cur'.fd = e.fd
      PROVE  /\ \A x \in todo' : Own(x)
             /\ \A e1, e2 \in todo' : e1.flow = e2.flow => e1 = e2
             /\ cur' \notin batch'
             /\ pc' = "wait" => batch' = {} /\ cur' = None
             /\ pc' = "recvdata" => cur' \in todo'
  <2>1. batch' = batch \ {e} /\ batch' \subseteq EventType /\ None \notin EventType
    BY <1>4, EventTypes DEF Taken, TypeInv, LoopOK, EventType
  <2>2. \A x \in todo' : (x \in todo /\ x \in batch /\ x # e) \/ (x = cur' /\ cur' # None)
    BY <2>1, EventTypes DEF todo
  <2>3. cur' # None => e \in todo
    BY <1>4, EventTypes DEF Events
  <2> HIDE DEF Own
  <2>4. ASSUME NEW x \in todo' PROVE Own(x)
    <3>1. CASE x = cur' /\ cur' # None
      <4>1. Own(e) /\ x.flow = e.flow /\ x.fd = e.fd
        BY <1>1, <1>4, <2>3, <3>1
      <4> QED BY <4>1 DEF Own
    <3> QED BY <1>1, <2>2, <3>1
  <2>5. \A x \in todo : x.flow = e.flow /\ e \in todo => x = e
    BY DEF EventsOK
  <2>6. ASSUME NEW e1 \in todo', NEW e2 \in todo', e1.flow = e2.flow PROVE e1 = e2
    BY <1>4, <2>2, <2>3, <2>5, <2>6 DEF EventsOK
  <2>7. cur' \notin batch'
    <3>1. CASE cur' = None
      BY <2>1, <3>1
    <3>2. CASE cur' # None
      <4> SUFFICES ASSUME cur' \in batch' PROVE FALSE
        OBVIOUS
      <4>1. cur' \in batch /\ cur' # e /\ cur'.kind = "conn"
        BY <1>4, <2>1, <3>2
      <4>2. cur' \in todo
        BY <4>1, EventTypes
      <4> QED BY <1>4, <2>3, <2>5, <3>2, <4>1, <4>2
    <3> QED BY <3>1, <3>2
  <2>8. pc' = "recvdata" => cur' \in todo'
    BY <1>4 DEF todo
  <2> QED BY <1>4, <2>4, <2>6, <2>7, <2>8
<1> HIDE DEF Own
<1> QED BY <1>3, <1>4 DEF BatchStep

-----------------------------------------------------------------------------
(* One step: types, tables and events                                      *)

Core == TypeInv' /\ TableStep

\* closeconn called with the tables as they are
LEMMA CloseCore ==
    ASSUME TypeInv, Tables, NEW F, CloseConn(F, slots, sock), flow' = flow
    PROVE  TablesOK' /\ TableStep /\ Reduced(Gone(F)) /\ ClosedOf(Gone(F), slots, sock)
<1>1. SameConns(slots) /\ SameSocks(sock)
  BY DEF SameConns, SameSocks, TypeInv, TablesOK
<1>2. ClosedOf(Gone(F), slots, sock) /\ TablesOK'
  BY <1>1, CloseEffect
<1>3. flow' \in Nat /\ flow <= flow'
  BY DEF TypeInv, LoopOK
<1>4. Gone(F) \subseteq Live /\ Gone(F) \in SUBSET Slot
  BY LiveType DEF Gone
<1> DEFINE gone == Gone(F)
           base == slots
           sk == sock
<1>5. /\ SameConns(base) /\ SameSocks(sk) /\ gone \subseteq Live /\ ClosedOf(gone, base, sk)
      /\ \A i \in Slot \ gone : slots[i].udp => base[i].w = slots[i].w
  BY <1>1, <1>2, <1>4
<1> HIDE DEF gone, base, sk
<1>6. Reduced(gone)
  BY <1>3, <1>5, CloseReduces
<1> QED BY <1>2, <1>4, <1>6 DEF TableStep, gone

\* The tables and the registrations stay.
LEMMA SameCore ==
    ASSUME TypeInv, Tables, UNCHANGED <<connVars, kernVars>>, flow' \in Nat, flow <= flow'
    PROVE  TablesOK' /\ TableStep /\ Reduced({})
<1>1. TablesOK'
  BY DEF connVars, kernVars, TypeInv, TablesOK, ConnType, WatchType, SockType, Unit
<1>2. Reduced({})
  BY SteadyReduces DEF connVars, kernVars, Tables, NoLeak
<1> QED BY <1>1, <1>2 DEF TableStep

\* What the user code is told of closed connections keeps its type (disconnect callback).
LEMMA ToldType ==
    ASSUME TypeInv, NEW F, Told(F) PROVE bye' \in [Flow -> Nat]
BY DEF Told, TypeInv, UserOK

\* An event is done with.
LEMMA FinishStep ==
    ASSUME TypeInv, NEW e \in Events, Finish(e)
    PROVE  BatchStep /\ pc' \in {"wait", "batch", "recvdata", "recvudp"}
           /\ batch' \in SUBSET EventType /\ cur' \in EventType \cup {None}
BY DEF Finish, Taken, BatchStep, TypeInv, LoopOK

\* Wait
LEMMA WaitCore ==
    ASSUME TypeInv, OwnInv, Wait
    PROVE  Core /\ EventsOK'
<1> USE DEF OwnInv
<1>1. PICK bare \in SUBSET {s \in ready : sock[s].peer = "rst"} :
        LET events(s) == EventsOf(sock[s], ep[s].out) \ (IF s \in bare THEN {"in", "out"} ELSE {})
            some == {s \in ready : events(s) # {} \/ s \in bare}
        IN  batch' = {ConnEvent(ep[s].fd, ep[s].flow, events(s)) : s \in some}
                       \cup (IF Waiting(Tcp) # {} THEN {ListenEvent} ELSE {})
                       \cup (IF Waiting(Udp) # {} /\ flow <= MaxFlow THEN {BoundEvent} ELSE {})
  BY DEF Wait
<1> DEFINE events(s) == EventsOf(sock[s], ep[s].out) \ (IF s \in bare THEN {"in", "out"} ELSE {})
           some == {s \in ready : events(s) # {} \/ s \in bare}
           conns == {ConnEvent(ep[s].fd, ep[s].flow, events(s)) : s \in some}
<1>2. batch' \subseteq conns \cup {ListenEvent, BoundEvent} /\ conns \subseteq batch'
  BY <1>1
<1>3. \A s \in Peer : events(s) \in SUBSET {"in", "out"}
  BY DEF EventsOf
<1>4. ListenEvent \in EventType /\ BoundEvent \in EventType
      /\ ListenEvent.kind # "conn" /\ BoundEvent.kind # "conn"
  BY DEF ListenEvent, BoundEvent, EventType
<1> HIDE DEF events
<1>5. ASSUME NEW e \in conns
      PROVE  /\ e \in EventType
             /\ \E s \in ready : s \in Peer /\ e = ConnEvent(ep[s].fd, ep[s].flow, events(s))
  <2>1. PICK s \in ready : e = ConnEvent(ep[s].fd, ep[s].flow, events(s))
    BY <1>5
  <2>2. s \in Peer /\ ep[s].fd \in Nat /\ ep[s].flow \in Nat
    BY DEF TypeInv, TablesOK, WatchType
  <2> QED BY <1>3, <2>1, <2>2 DEF ConnEvent, EventType
<1> HIDE DEF conns
<1>6. batch' \in SUBSET EventType
  BY <1>2, <1>4, <1>5
<1>7. TypeInv'
  <2>1. TablesOK'
    BY DEF Wait, connVars, TypeInv, TablesOK, ConnType, WatchType, SockType, Unit
  <2>2. LoopOK' /\ UserOK'
    BY <1>6 DEF Wait, TypeInv, LoopOK, EventType, userVars, UserOK
  <2> QED BY <2>1, <2>2 DEF TypeInv
<1>8. TableStep
  <2>1. flow' = flow /\ flow \in Nat
    BY DEF Wait, TypeInv, LoopOK
  <2>2. Reduced({})
    BY <2>1, SteadyReduces DEF Wait, connVars
  <2> QED BY <2>2 DEF TableStep
<1>9. cur' = None /\ pc' = "batch" /\ slots' = slots /\ flow' = flow
  BY DEF Wait, OwnInv, EventsOK, connVars
<1>10. ASSUME NEW e \in todo'
       PROVE  \E i \in Live : /\ e.flow = slots[i].flow /\ e.fd = slots[i].fd /\ ~slots[i].udp
                              /\ SlotOf(e.flow) = i /\ e.flow \in 1 .. flow
                              /\ e = ConnEvent(ep[peerOf[i]].fd, ep[peerOf[i]].flow, events(peerOf[i]))
  <2>1. e \in batch' /\ e.kind = "conn"
    BY <1>9 DEF todo
  <2>2. PICK s \in ready : s \in Peer /\ e = ConnEvent(ep[s].fd, ep[s].flow, events(s))
    BY <1>2, <1>4, <1>5, <2>1
  <2>3. PICK i \in Live : ~slots[i].udp /\ peerOf[i] = s
    BY <2>2 DEF Tables, NoLeak
  <2>4. e.flow = ep[s].flow /\ e.fd = ep[s].fd
    BY <2>2 DEF ConnEvent
  <2> QED BY <2>2, <2>3, <2>4 DEF Tables, Placed
<1>11. EventsOK'
  <2>1. \A e \in todo' : /\ e.flow \in 1 .. flow'
                         /\ ~slots'[SlotOf(e.flow)].udp /\ slots'[SlotOf(e.flow)].fd = e.fd
    BY <1>9, <1>10
  <2>2. \A e1, e2 \in todo' : e1.flow = e2.flow => e1 = e2
    BY <1>10
  <2>3. cur' \notin batch'
    BY <1>6, <1>9, EventTypes
  <2> QED BY <1>9, <2>1, <2>2, <2>3 DEF EventsOK, SlotOf, Found
<1> QED BY <1>7, <1>8, <1>11 DEF Core

\* What addconn gives is new; what is denied only takes a flow.
LEMMA FlowGrows ==
    ASSUME TypeInv, NoWrap
    PROVE  /\ NextFlow \in Nat /\ flow <= NextFlow
           /\ AddConn(NextFlow).flow \in Nat /\ flow <= AddConn(NextFlow).flow
<1>1. flow \in Nat /\ MaxConn \in Nat
  BY SizeAssumption DEF TypeInv, LoopOK
<1>2. NextFlow = flow + 1 /\ AddConn(NextFlow).flow \in flow + 1 .. flow + 1 + MaxConn
  BY NewFlow
<1> QED BY <1>1, <1>2

\* A socket that is accepted keeps what it has received.
LEMMA QueuedType ==
    ASSUME TypeInv, NEW s \in Peer, NEW st \in {"new", "queued", "open", "gone"}
    PROVE  /\ [sock[s] EXCEPT !.st = st] \in SockType /\ [sock[s] EXCEPT !.st = st].st = st
           /\ Queued(s, st) = [sock EXCEPT ![s] = [sock[s] EXCEPT !.st = st]]
BY DEF TypeInv, TablesOK, SockType, Queued

\* CTSockCommu::handle_accept on a listening socket
LEMMA AcceptCore ==
    ASSUME TypeInv, OwnInv, NoWrap, ~LateFailure, NEW e \in Events, Accept(e)
    PROVE  Core /\ BatchStep
<1> USE DEF OwnInv
<1>1. BatchStep /\ pc' \in {"wait", "batch", "recvdata", "recvudp"}
      /\ batch' \in SUBSET EventType /\ cur' \in EventType \cup {None}
  BY FinishStep DEF Accept
<1>2. PICK s \in Waiting(Tcp) :
         \/ /\ FreeFd = {}
            /\ UNCHANGED <<connVars, kernVars, flow, userVars>>
         \/ /\ FreeFd # {}
            /\ flow' = NextFlow
            /\ CloseFds({}, {s}, sock)
            /\ UNCHANGED <<connVars, asked, bye, given>>
         \/ LET d == Min(FreeFd)
                a == AddConn(NextFlow)
            IN  /\ FreeFd # {}
                /\ flow' = a.flow
                /\ \/ /\ ~a.ok
                      /\ CloseFds({}, {s}, sock)
                      /\ UNCHANGED connVars
                   \/ /\ a.ok
                      /\ slots' = AddedSlot(a.flow, d, s)
                      /\ curconn' = curconn + 1
                      /\ sock' = Queued(s, "open")
                      /\ fdtab' = [fdtab EXCEPT ![d] = s]
                      /\ Watch(s, d, a.flow, FALSE, sock)
                /\ UNCHANGED <<asked, bye, given>>
  BY DEF Accept
<1>3. s \in Tcp /\ s \in Peer /\ s \in Tcp \cup Back /\ sock[s].st \in {"new", "queued"}
  BY DEF Waiting, Peer
<1>4. UNCHANGED userVars
  BY <1>2 DEF userVars
<1>5. flow' \in Nat /\ flow <= flow'
  <2>1. flow' \in {flow, NextFlow, AddConn(NextFlow).flow}
    BY <1>2
  <2>2. flow \in Nat
    BY DEF TypeInv, LoopOK
  <2> QED BY <2>1, <2>2, FlowGrows
<1>6. TablesOK' /\ TableStep
  <2>1. CASE UNCHANGED <<connVars, kernVars>>
    BY <1>5, <2>1, SameCore
  <2>2. CASE CloseFds({}, {s}, sock) /\ UNCHANGED connVars
    <3>1. TablesOK' /\ Reduced({})
      BY <1>3, <1>5, <2>2, DropEffect
    <3> QED BY <3>1 DEF TableStep
  <2>3. CASE /\ FreeFd # {} /\ AddConn(NextFlow).ok /\ flow' = AddConn(NextFlow).flow
             /\ slots' = AddedSlot(AddConn(NextFlow).flow, Min(FreeFd), s)
             /\ curconn' = curconn + 1
             /\ sock' = Queued(s, "open")
             /\ fdtab' = [fdtab EXCEPT ![Min(FreeFd)] = s]
             /\ Watch(s, Min(FreeFd), AddConn(NextFlow).flow, FALSE, sock)
    <3> DEFINE k == [sock[s] EXCEPT !.st = "open"]
               sk == sock
    <3>1. k \in SockType /\ k.st = "open" /\ sock' = [sock EXCEPT ![s] = k]
      BY <1>3, <2>3, QueuedType
    <3>2. Watch(s, Min(FreeFd), AddConn(NextFlow).flow, FALSE, sk)
      BY <2>3
    <3> HIDE DEF k, sk
    <3>3. TablesOK' /\ Added(AddConn(NextFlow).flow, Min(FreeFd), s)
      BY <1>3, <2>3, <3>1, <3>2, AddEffect
    <3>4. AddConn(NextFlow).flow \in Nat /\ Min(FreeFd) \in Nat
      BY <2>3, FlowGrows, LeastFd DEF Fd
    <3> QED BY <1>3, <3>3, <3>4 DEF TableStep
  <2> QED BY <1>2, <2>1, <2>2, <2>3
<1>7. LoopOK' /\ UserOK'
  BY <1>1, <1>4, <1>5 DEF userVars, TypeInv, LoopOK, UserOK, EventType
<1> QED BY <1>1, <1>6, <1>7 DEF Core, TypeInv

\* The slot of a datagram.
LEMMA AddUdpEffect ==
    ASSUME TypeInv, Tables, NoWrap, NEW s \in Udp, sock[s].st \in {"new", "queued"},
           AddConn(NextFlow).ok, flow' = AddConn(NextFlow).flow,
           slots' = [AddedSlot(AddConn(NextFlow).flow, 0, s) EXCEPT
                       ![SlotOf(AddConn(NextFlow).flow)].r = Append(@, s)],
           curconn' = curconn + 1,
           sock' = [Queued(s, "open") EXCEPT ![s].rx = 0],
           UNCHANGED <<fdtab, ep, ready>>
    PROVE  /\ TablesOK' /\ Added(AddConn(NextFlow).flow, 0, s)
           /\ slots'[SlotOf(AddConn(NextFlow).flow)].r = Append(<<>>, s)
<1> DEFINE f == AddConn(NextFlow).flow
           A == AddedSlot(f, 0, s)
<1>1. f \in flow + 1 .. flow + 1 + MaxConn /\ slots[SlotOf(f)].flow = 0
  BY NewFlow
<1>2. flow \in Nat /\ MaxConn \in Nat /\ s \in Peer
  BY SizeAssumption DEF TypeInv, LoopOK, Peer
<1> HIDE DEF f
<1>3. f \in Nat \ {0} /\ flow' = f /\ f \in flow + 1 .. flow'
  BY <1>1, <1>2 DEF f
<1>4. PICK k \in Slot : k = SlotOf(f)
  BY <1>3, SlotRange
<1>5. /\ A \in [Slot -> ConnType]
      /\ \A j \in Slot \ {k} : A[j] = slots[j]
      /\ A[k].flow = f /\ A[k].fd = 0 /\ A[k].r = <<>> /\ A[k].w = <<>>
      /\ (A[k].udp <=> s \in Udp) /\ (s \in Udp => A[k].addr = s)
  <2> DEFINE d == 0
  <2>1. d \in Nat
    OBVIOUS
  <2> HIDE DEF d
  <2> DEFINE B == AddedSlot(f, d, s)
  <2>2. /\ B \in [Slot -> ConnType]
        /\ \A j \in Slot \ {k} : B[j] = slots[j]
        /\ B[k].flow = f /\ B[k].fd = d /\ B[k].r = <<>> /\ B[k].w = <<>>
        /\ (B[k].udp <=> s \in Udp) /\ (s \in Udp => B[k].addr = s)
    BY <1>1, <1>2, <1>3, <1>4, <2>1, SlotTaken DEF Tables
  <2> QED BY <2>2 DEF d
<1>6. slots' = [A EXCEPT ![k].r = Append(@, s)]
  BY <1>4 DEF f
<1> HIDE DEF A
<1>7. Append(<<>>, s) \in Seq(Peer)
  BY <1>2, EmptySeq, AppendProperties
<1>8. /\ slots' \in [Slot -> ConnType] /\ \A j \in Slot \ {k} : slots'[j] = slots[j]
      /\ slots'[k].flow = f /\ slots'[k].fd = 0 /\ slots'[k].r = Append(<<>>, s) /\ slots'[k].w = <<>>
      /\ slots'[k].udp /\ slots'[k].addr = s
  <2> DEFINE y == [A[k] EXCEPT !.r = Append(@, s)]
  <2>1. A[k] \in ConnType
    BY <1>5
  <2>2. slots' = [A EXCEPT ![k] = y]
    BY <1>6
  <2>3. /\ y \in ConnType /\ y.flow = f /\ y.fd = 0 /\ y.r = Append(<<>>, s) /\ y.w = <<>>
        /\ y.udp = A[k].udp /\ y.addr = A[k].addr
    BY <1>5, <1>7, <2>1 DEF ConnType
  <2> HIDE DEF y
  <2>4. slots' \in [Slot -> ConnType] /\ slots'[k] = y /\ \A j \in Slot \ {k} : slots'[j] = slots[j]
    BY <1>5, <2>2, <2>3
  <2> QED BY <1>5, <2>3, <2>4
<1>9. /\ sock' \in [Peer -> SockType] /\ sock'[s].st = "open"
      /\ \A x \in Peer \ {s} : sock'[x] = sock[x]
  <2> DEFINE y == [sock[s] EXCEPT !.st = "open"]
  <2>1. y \in SockType /\ y.st = "open" /\ Queued(s, "open") = [sock EXCEPT ![s] = y]
    BY <1>2, QueuedType
  <2> HIDE DEF y
  <2> DEFINE z == [y EXCEPT !.rx = 0]
  <2>2. sock \in [Peer -> SockType] /\ sock' = [[sock EXCEPT ![s] = y] EXCEPT ![s].rx = 0]
    BY <2>1 DEF TypeInv, TablesOK
  <2>3. sock' = [sock EXCEPT ![s] = z]
    BY <1>2, <2>2
  <2>4. z \in SockType /\ z.st = "open"
    BY <2>1 DEF SockType
  <2> HIDE DEF z
  <2> QED BY <1>2, <2>2, <2>3, <2>4
<1>10. TablesOK'
  BY <1>8, <1>9 DEF TypeInv, TablesOK, ConnType, WatchType, SockType, Unit
<1>11. Added(f, 0, s)
  BY <1>1, <1>2, <1>3, <1>4, <1>8, <1>9 DEF Added, f
<1> QED BY <1>4, <1>8, <1>10, <1>11 DEF f

\* a datagram on a bound socket gets a connection (handle_accept_udp)
LEMMA AcceptUdpCore ==
    ASSUME TypeInv, OwnInv, NoWrap, NEW e \in Events, AcceptUdp(e)
    PROVE  Core /\ BatchStep
<1> USE DEF OwnInv
<1>1. BatchStep /\ pc' \in {"wait", "batch", "recvdata", "recvudp"}
      /\ batch' \in SUBSET EventType /\ cur' \in EventType \cup {None}
  <2>1. pc' \in {"batch", "recvudp"} /\ cur' = None /\ Taken(e)
    BY DEF AcceptUdp
  <2> QED BY <2>1 DEF Taken, BatchStep, TypeInv, LoopOK
<1>2. /\ flow' = AddConn(NextFlow).flow
      /\ \/ UNCHANGED <<connVars, kernVars, userVars>>
         \/ \E s \in Waiting(Udp) :
              /\ AddConn(NextFlow).ok
              /\ \/ /\ CloseFds({}, {s}, sock)
                    /\ UNCHANGED <<connVars, asked>>
                 \/ /\ slots' = [AddedSlot(AddConn(NextFlow).flow, 0, s) EXCEPT
                                   ![SlotOf(AddConn(NextFlow).flow)].r = Append(@, s)]
                    /\ curconn' = curconn + 1
                    /\ sock' = [Queued(s, "open") EXCEPT ![s].rx = 0]
                    /\ asked' = [asked EXCEPT ![s] = AddConn(NextFlow).flow]
                    /\ UNCHANGED <<fdtab, ep, ready>>
              /\ UNCHANGED <<bye, given>>
  BY DEF AcceptUdp
<1>3. flow' \in Nat /\ flow <= flow' /\ AddConn(NextFlow).flow \in Nat
  BY <1>2, FlowGrows
<1>4. UserOK'
  BY <1>2, <1>3 DEF userVars, TypeInv, UserOK
<1>5. LoopOK'
  BY <1>1, <1>3 DEF LoopOK, EventType
<1>6. TablesOK' /\ TableStep
  <2>1. CASE UNCHANGED <<connVars, kernVars>>
    BY <1>3, <2>1, SameCore
  <2>2. ASSUME NEW s \in Waiting(Udp), CloseFds({}, {s}, sock), UNCHANGED connVars
        PROVE  TablesOK' /\ TableStep
    <3>1. s \in Peer /\ sock[s].st \in {"new", "queued"}
      BY DEF Waiting, Peer
    <3>2. TablesOK' /\ Reduced({})
      BY <1>3, <2>2, <3>1, DropEffect
    <3> QED BY <3>2 DEF TableStep
  <2>3. ASSUME NEW s \in Waiting(Udp), AddConn(NextFlow).ok,
               slots' = [AddedSlot(AddConn(NextFlow).flow, 0, s) EXCEPT
                           ![SlotOf(AddConn(NextFlow).flow)].r = Append(@, s)],
               curconn' = curconn + 1,
               sock' = [Queued(s, "open") EXCEPT ![s].rx = 0],
               UNCHANGED <<fdtab, ep, ready>>
        PROVE  TablesOK' /\ TableStep
    <3>1. s \in Udp /\ s \in Peer /\ sock[s].st \in {"new", "queued"}
      BY DEF Waiting, Peer
    <3>2. TablesOK' /\ Added(AddConn(NextFlow).flow, 0, s)
      BY <1>2, <2>3, <3>1, AddUdpEffect
    <3> QED BY <1>3, <3>1, <3>2 DEF TableStep
  <2> QED BY <1>2, <2>1, <2>2, <2>3
<1> QED BY <1>1, <1>4, <1>5, <1>6 DEF Core, TypeInv

\* The cache of one connection changes.
LEMMA OneSlot ==
    ASSUME TypeInv, NEW i \in Live, NEW c \in ConnType, c.flow = slots[i].flow, c.fd = slots[i].fd,
           c.udp = slots[i].udp, c.addr = slots[i].addr
    PROVE  LET base == [slots EXCEPT ![i] = c]
           IN  SameConns(base) /\ base[i] = c /\ \A j \in Slot \ {i} : base[j] = slots[j]
<1>1. slots \in [Slot -> ConnType] /\ i \in Slot /\ slots[i].flow # 0
  BY DEF TypeInv, TablesOK, Live
<1> QED BY <1>1 DEF SameConns

\* base is slots, but for the caches of connection i, which are p and q.
CachesAre(base, i, p, q) ==
    /\ SameConns(base) /\ \A j \in Slot \ {i} : base[j] = slots[j]
    /\ base[i].r = p /\ base[i].w = q

\* The slot found for a flow, with another write cache, or another read cache.
LEMMA CacheSet ==
    ASSUME TypeInv, NEW i \in Live, NEW f, SlotOf(f) = i, NEW q \in Seq(Unit), NEW p \in Seq(Peer)
    PROVE  /\ CachesAre([Touched(f) EXCEPT ![SlotOf(f)].w = q], i, slots[i].r, q)
           /\ CachesAre([Touched(f) EXCEPT ![SlotOf(f)].r = p], i, p, slots[i].w)
           /\ CachesAre([slots EXCEPT ![SlotOf(f)].r = p], i, p, slots[i].w)
           /\ CachesAre(Touched(f), i, slots[i].r, slots[i].w)
<1> DEFINE c1 == [slots[i] EXCEPT !.idle = FALSE, !.w = q]
           c2 == [slots[i] EXCEPT !.idle = FALSE, !.r = p]
           c3 == [slots[i] EXCEPT !.r = p]
           c4 == [slots[i] EXCEPT !.idle = FALSE]
           Like(c) == c \in ConnType /\ c.flow = slots[i].flow /\ c.fd = slots[i].fd
                      /\ c.udp = slots[i].udp /\ c.addr = slots[i].addr
<1>1. slots \in [Slot -> ConnType] /\ i \in Slot /\ slots[i] \in ConnType
  BY DEF TypeInv, TablesOK, Live
<1>2. /\ Like(c1) /\ c1.w = q /\ c1.r = slots[i].r
      /\ Like(c2) /\ c2.w = slots[i].w /\ c2.r = p
      /\ Like(c3) /\ c3.w = slots[i].w /\ c3.r = p
      /\ Like(c4) /\ c4.w = slots[i].w /\ c4.r = slots[i].r
  BY <1>1 DEF ConnType
<1>3. /\ [Touched(f) EXCEPT ![SlotOf(f)].w = q] = [slots EXCEPT ![i] = c1]
      /\ [Touched(f) EXCEPT ![SlotOf(f)].r = p] = [slots EXCEPT ![i] = c2]
      /\ [slots EXCEPT ![SlotOf(f)].r = p] = [slots EXCEPT ![i] = c3]
      /\ Touched(f) = [slots EXCEPT ![i] = c4]
  BY <1>1 DEF Touched
<1> HIDE DEF c1, c2, c3, c4
<1>4. \A c : Like(c) => CachesAre([slots EXCEPT ![i] = c], i, c.r, c.w)
  BY OneSlot DEF CachesAre
<1> HIDE DEF Like
<1>5. /\ CachesAre([slots EXCEPT ![i] = c1], i, slots[i].r, q)
      /\ CachesAre([slots EXCEPT ![i] = c2], i, p, slots[i].w)
      /\ CachesAre([slots EXCEPT ![i] = c3], i, p, slots[i].w)
      /\ CachesAre([slots EXCEPT ![i] = c4], i, slots[i].r, slots[i].w)
  BY <1>2, <1>4
<1> QED BY <1>3, <1>5

\* What ::send does to the socket of a connection.
LEMMA PushedSock ==
    ASSUME TypeInv, Placed, NEW i \in Live, NEW out \in Seq(Unit), NEW all
    PROVE  LET s == peerOf[i]
               sent == Pushed(slots[i], out, all)
           IN  /\ SameSocks(sent) /\ s \in Peer
               /\ \A x \in Peer \ {s} : sent[x] = sock[x]
               /\ sent[s].got = sock[s].got \o out
               /\ sent[s].full <=> ~slots[i].udp /\ ~all
               /\ sent[s].rx = sock[s].rx /\ sent[s].peer = sock[s].peer
<1> DEFINE s == peerOf[i]
           u == ~slots[i].udp /\ ~all
           k == [sock[s] EXCEPT !.got = @ \o out, !.full = u]
           sent == Pushed(slots[i], out, all)
<1>1. sock \in [Peer -> SockType] /\ s \in Peer /\ s = Target(slots[i]) /\ s # NoSock
  BY LiveType, PeerAssumption, ZenonT(60) DEF TypeInv, TablesOK, peerOf, Placed
<1>2. sent = [sock EXCEPT ![s].got = @ \o out, ![s].full = u]
  BY <1>1 DEF Pushed
<1>3. u \in BOOLEAN
  OBVIOUS
<1>4. sock[s].got \o out \in Seq(Unit)
  <2>1. sock[s].got \in Seq(Unit)
    BY <1>1 DEF SockType
  <2> HIDE DEF s
  <2> QED BY <2>1, ConcatProperties
<1>5. u <=> ~slots[i].udp /\ ~all
  OBVIOUS
<1> HIDE DEF s, u, sent
<1>6. sent = [sock EXCEPT ![s] = k]
  BY <1>1, <1>2
<1>7. /\ k \in SockType /\ k.got = sock[s].got \o out /\ k.full = u
      /\ k.rx = sock[s].rx /\ k.peer = sock[s].peer /\ k.st = sock[s].st
  BY <1>1, <1>3, <1>4 DEF SockType
<1> HIDE DEF k
<1>8. SameSocks(sent) /\ sent[s] = k /\ \A x \in Peer \ {s} : sent[x] = sock[x]
  BY <1>1, <1>6, <1>7 DEF SameSocks
<1>9. k.full <=> ~slots[i].udp /\ ~all
  BY <1>5, <1>7
<1> QED BY <1>1, <1>7, <1>8, <1>9 DEF s, sent

\* The connection an event, or user code, names.
LEMMA FoundConn ==
    ASSUME TypeInv, Tables, NEW f \in Nat, Found(f)
    PROVE  \E i \in Live : /\ i = SlotOf(f) /\ slots[i].flow = f /\ slots[i] \in ConnType
                           /\ slots[i].w \in Seq(Unit) /\ slots[i].r \in Seq(Peer)
                           /\ peerOf[i] \in Peer /\ peerOf[i] = Target(slots[i])
                           /\ (~slots[i].udp => peerOf[i] = SockAt(slots[i].fd))
                           /\ Gone({f}) = {i} /\ i \in Slot
<1>1. PICK i \in Slot : i = SlotOf(f)
  BY SlotRange
<1>2. i \in Live /\ slots[i].flow = f /\ \A j \in Slot : slots[j].flow = f => j = i
  BY <1>1, FoundSlot DEF Tables
<1>3. slots[i] \in ConnType /\ slots[i].w \in Seq(Unit) /\ slots[i].r \in Seq(Peer)
  BY <1>1 DEF TypeInv, TablesOK, ConnType
<1>4. peerOf[i] \in Peer /\ peerOf[i] = Target(slots[i])
  BY <1>2 DEF Tables, Placed, peerOf
<1>5. ~slots[i].udp => peerOf[i] = SockAt(slots[i].fd)
  BY <1>4 DEF Target
<1>6. Gone({f}) = {i}
  BY <1>2, LiveType DEF Gone
<1> QED BY <1>1, <1>2, <1>3, <1>4, <1>5, <1>6

\* The caches of a connection change, and perhaps what it is registered for.
LEMMA CacheStep ==
    ASSUME TypeInv, Tables, NEW i \in Live, NEW p, NEW q, CachesAre(slots', i, p, q),
           slots[i].udp => q = slots[i].w, SameSocks(sock'), UNCHANGED <<curconn, fdtab, flow>>,
           \/ UNCHANGED <<ep, ready>>
           \/ /\ ~slots[i].udp
              /\ \E out \in BOOLEAN, sk \in {sock, sock'} :
                    Watch(peerOf[i], slots[i].fd, slots[i].flow, out, sk)
    PROVE  TablesOK' /\ TableStep /\ Reduced({})
<1>1. flow \in Nat /\ flow' \in Nat /\ flow <= flow' /\ peerOf[i] \in Peer
  BY DEF TypeInv, LoopOK, Tables, Placed
<1>2. /\ slots' \in [Slot -> ConnType] /\ sock' \in [Peer -> SockType]
      /\ \A s \in Peer : sock'[s].st = sock[s].st
  BY DEF CachesAre, SameConns, SameSocks
<1>3. \A j \in Slot :
        /\ slots'[j].flow = slots[j].flow /\ slots'[j].fd = slots[j].fd
        /\ slots'[j].udp = slots[j].udp /\ slots'[j].addr = slots[j].addr
        /\ slots[j].flow = 0 => slots'[j] = slots[j]
        /\ slots[j].udp => slots'[j].w = slots[j].w
  BY DEF CachesAre, SameConns
<1>4. /\ ep' \in [Peer -> WatchType] /\ ready' \in SUBSET Peer
      /\ \A s \in Peer : /\ ep'[s].on = ep[s].on
                         /\ ep[s].on => ep'[s].flow = ep[s].flow /\ ep'[s].fd = ep[s].fd
                         /\ s \in ready' => ep'[s].on
  <2>1. CASE UNCHANGED <<ep, ready>>
    BY <2>1 DEF TypeInv, TablesOK, Tables, NoLeak, WatchType
  <2>2. CASE /\ ~slots[i].udp
             /\ \E out \in BOOLEAN, sk \in {sock, sock'} :
                   Watch(peerOf[i], slots[i].fd, slots[i].flow, out, sk)
    <3>1. PICK out \in BOOLEAN, sk \in {sock, sock'} :
                   Watch(peerOf[i], slots[i].fd, slots[i].flow, out, sk)
      BY <2>2
    <3> DEFINE s == peerOf[i]
               d == slots[i].fd
               f == slots[i].flow
    <3>2. /\ s \in Peer /\ d \in Nat /\ f \in Nat /\ out \in BOOLEAN /\ Watch(s, d, f, out, sk)
          /\ ep[s].on /\ ep[s].flow = f /\ ep[s].fd = d
      BY <1>1, <2>2, <3>1 DEF TypeInv, TablesOK, ConnType, Live, Tables, Placed
    <3> HIDE DEF s, d, f
    <3>3. /\ ep' \in [Peer -> WatchType] /\ ready' \in SUBSET Peer
          /\ ep'[s].on /\ ep'[s].fd = d /\ ep'[s].flow = f
          /\ \A x \in Peer \ {s} : ep'[x] = ep[x]
          /\ ready' \subseteq ready \cup {s}
      BY <3>2, WatchEffect
    <3>4. \A x \in ready : ep[x].on
      BY DEF Tables, NoLeak
    <3>5. ep \in [Peer -> WatchType]
      BY DEF TypeInv, TablesOK
    <3>6. ep'[s].on = ep[s].on
      <4>1. ep'[s].on \in BOOLEAN /\ ep[s].on \in BOOLEAN
        BY <3>2, <3>3, <3>5 DEF WatchType
      <4> QED BY <3>2, <3>3, <4>1
    <3> QED BY <3>2, <3>3, <3>4, <3>6
  <2> QED BY <2>1, <2>2
<1>5. TablesOK'
  BY <1>2, <1>4 DEF TypeInv, TablesOK, ConnType, WatchType, SockType, Unit
<1>6. Reduced({})
  BY <1>1, <1>2, <1>3, <1>4, SteadyReduces
<1> QED BY <1>5, <1>6 DEF TableStep

\* an event with an error closes the connection (poll)
LEMMA AbnormalCore ==
    ASSUME TypeInv, OwnInv, NEW e \in Events, Abnormal(e)
    PROVE  Core /\ BatchStep
<1>1. BatchStep /\ LoopOK'
  BY FinishStep DEF Abnormal, TypeInv, LoopOK, EventType
<1>2. UserOK'
  BY ToldType DEF Abnormal, TypeInv, UserOK
<1>3. TablesOK' /\ TableStep
  <2>1. CloseConn({e.flow}, slots, sock) /\ flow' = flow
    BY DEF Abnormal
  <2> QED BY <2>1, CloseCore DEF OwnInv
<1> QED BY <1>1, <1>2, <1>3 DEF Core, TypeInv

\* The connection of an event that still has its flow.
LEMMA EventConn ==
    ASSUME TypeInv, OwnInv, NEW e \in Events, e.kind = "conn", Found(e.flow)
    PROVE  \E i \in Live : /\ i = SlotOf(e.flow) /\ slots[i].flow = e.flow /\ slots[i] \in ConnType
                           /\ slots[i].w \in Seq(Unit) /\ slots[i].r \in Seq(Peer)
                           /\ peerOf[i] \in Peer /\ peerOf[i] = Target(slots[i])
                           /\ ~slots[i].udp /\ slots[i].fd = e.fd
                           /\ peerOf[i] = SockAt(e.fd)
                           /\ Gone({e.flow}) = {i} /\ i \in Slot
<1>1. e \in todo /\ e.flow \in Nat
  BY EventTypes DEF Events
<1>2. ~slots[SlotOf(e.flow)].udp /\ slots[SlotOf(e.flow)].fd = e.fd
  BY <1>1 DEF OwnInv, EventsOK
<1>3. PICK f \in Nat : f = e.flow
  BY <1>1
<1>4. Found(f) /\ SlotOf(f) = SlotOf(e.flow) /\ Gone({f}) = Gone({e.flow})
  BY <1>3
<1>5. PICK i \in Live : /\ i = SlotOf(f) /\ slots[i].flow = f /\ slots[i] \in ConnType
                        /\ slots[i].w \in Seq(Unit) /\ slots[i].r \in Seq(Peer)
                        /\ peerOf[i] \in Peer /\ peerOf[i] = Target(slots[i])
                        /\ (~slots[i].udp => peerOf[i] = SockAt(slots[i].fd))
                        /\ Gone({f}) = {i} /\ i \in Slot
  BY <1>4, FoundConn DEF OwnInv
<1> QED BY <1>2, <1>3, <1>4, <1>5

\* the socket takes data again: CConnSet::sendfromcache
LEMMA WritableCore ==
    ASSUME TypeInv, OwnInv, NEW e \in Events, Writable(e)
    PROVE  Core /\ BatchStep
<1>1. e \in EventType /\ [e EXCEPT !.ev = {"in"}] \in EventType
      /\ [e EXCEPT !.ev = {"in"}].kind = e.kind /\ [e EXCEPT !.ev = {"in"}].flow = e.flow
      /\ [e EXCEPT !.ev = {"in"}].fd = e.fd
  <2>1. e \in EventType
    BY EventTypes
  <2> QED BY <2>1 DEF EventType
<1>2. Taken(e) /\ pc' = "batch" /\ e.kind = "conn" /\ flow' = flow /\ UNCHANGED userVars
      /\ cur' \in {None, [e EXCEPT !.ev = {"in"}]}
  BY DEF Writable
<1>3. BatchStep
  BY <1>1, <1>2 DEF BatchStep
<1>4. LoopOK' /\ UserOK'
  BY <1>1, <1>2 DEF Taken, TypeInv, LoopOK, UserOK, userVars, EventType
<1>5. TablesOK' /\ TableStep
  <2>1. CASE ~Found(e.flow)
    <3>1. UNCHANGED <<connVars, kernVars>>
      BY <2>1 DEF Writable
    <3>2. flow' \in Nat /\ flow <= flow'
      BY <1>2 DEF TypeInv, LoopOK
    <3> QED BY <3>1, <3>2, SameCore DEF OwnInv
  <2>2. CASE Found(e.flow)
    <3>1. PICK i \in Live : /\ i = SlotOf(e.flow) /\ slots[i].flow = e.flow
                            /\ slots[i].w \in Seq(Unit) /\ slots[i].r \in Seq(Peer)
                            /\ peerOf[i] \in Peer
                            /\ ~slots[i].udp /\ slots[i].fd = e.fd
                            /\ peerOf[i] = SockAt(e.fd)
      BY <1>2, <2>2, EventConn
    <3>2. PICK o \in SendFromCache(slots[i]) :
             \/ CloseConn({e.flow}, slots, sock)
             \/ /\ ~o.broken
                /\ slots' = [Touched(e.flow) EXCEPT ![SlotOf(e.flow)].w = o.w]
                /\ sock' = Pushed(slots[i], o.out, o.w = <<>>)
                /\ IF o.w = <<>>
                   THEN Watch(SockAt(e.fd), e.fd, e.flow, FALSE, Pushed(slots[i], o.out, o.w = <<>>))
                   ELSE UNCHANGED <<ep, ready>>
                /\ UNCHANGED <<curconn, fdtab>>
      BY <2>2, <3>1 DEF Writable
    <3>3. CASE CloseConn({e.flow}, slots, sock)
      BY <1>2, <3>3, CloseCore DEF OwnInv
    <3>4. CASE /\ ~o.broken
               /\ slots' = [Touched(e.flow) EXCEPT ![SlotOf(e.flow)].w = o.w]
               /\ sock' = Pushed(slots[i], o.out, o.w = <<>>)
               /\ IF o.w = <<>>
                  THEN Watch(SockAt(e.fd), e.fd, e.flow, FALSE, Pushed(slots[i], o.out, o.w = <<>>))
                  ELSE UNCHANGED <<ep, ready>>
               /\ UNCHANGED <<curconn, fdtab>>
      <4>1. o.w \in Seq(Unit) /\ o.out \in Seq(Unit)
        BY <3>1, FromCache DEF SentOf
      <4>2. CachesAre(slots', i, slots[i].r, o.w)
        BY <3>1, <3>4, <4>1, CacheSet
      <4> DEFINE all == o.w = <<>>
      <4>3. sock' = Pushed(slots[i], o.out, all)
        BY <3>4
      <4> HIDE DEF all
      <4>4. SameSocks(sock')
        BY <3>1, <4>1, <4>3, PushedSock DEF OwnInv, Tables
      <4>5. \/ UNCHANGED <<ep, ready>>
            \/ Watch(peerOf[i], slots[i].fd, slots[i].flow, FALSE, sock')
        BY <3>1, <3>4
      <4> QED BY <1>2, <3>1, <3>4, <4>2, <4>4, <4>5, CacheStep DEF OwnInv
    <3> QED BY <3>2, <3>3, <3>4
  <2> QED BY <2>1, <2>2
<1> QED BY <1>3, <1>4, <1>5 DEF Core, TypeInv

\* What recv has got.
LEMMA Received ==
    ASSUME TypeInv, NEW s \in Peer, NEW n \in recv(s).len
    PROVE  /\ n \in 1 .. sock[s].rx /\ sock[s].peer # "rst"
           /\ LET sent == [sock EXCEPT ![s].rx = @ - n]
              IN  /\ SameSocks(sent) /\ \A x \in Peer \ {s} : sent[x] = sock[x]
                  /\ sent[s].got = sock[s].got /\ sent[s].full = sock[s].full
                  /\ sent[s].peer = sock[s].peer
           /\ [j \in 1 .. n |-> s] \in Seq(Peer) /\ Len([j \in 1 .. n |-> s]) = n
<1>1. sock \in [Peer -> SockType] /\ s # NoSock
  BY PeerAssumption DEF TypeInv, TablesOK
<1>2. n \in 1 .. sock[s].rx /\ sock[s].peer # "rst"
  <2>1. recv(s).len = IF sock[s].peer = "rst" THEN {} ELSE 1 .. sock[s].rx
    BY <1>1 DEF recv
  <2> QED BY <2>1
<1> DEFINE k == [sock[s] EXCEPT !.rx = @ - n]
           sent == [sock EXCEPT ![s].rx = @ - n]
<1>3. sock[s].rx \in Nat /\ sock[s].rx - n \in Nat
  BY <1>1, <1>2 DEF SockType
<1>4. /\ k \in SockType /\ k.got = sock[s].got /\ k.full = sock[s].full /\ k.peer = sock[s].peer
      /\ k.st = sock[s].st
  BY <1>1, <1>3 DEF SockType
<1>5. sent = [sock EXCEPT ![s] = k]
  BY <1>1
<1> HIDE DEF k
<1>6. SameSocks(sent) /\ sent[s] = k /\ \A x \in Peer \ {s} : sent[x] = sock[x]
  BY <1>1, <1>4, <1>5 DEF SameSocks
<1>7. [j \in 1 .. n |-> s] \in Seq(Peer) /\ Len([j \in 1 .. n |-> s]) = n
  <2>1. n \in Nat
    BY <1>2, <1>3
  <2> QED BY <2>1
<1> QED BY <1>2, <1>4, <1>6, <1>7

\* CConnSet::recv, up to the callback with the data
LEMMA RecvCore ==
    ASSUME TypeInv, OwnInv, NEW e \in Events, Recv(e)
    PROVE  Core /\ BatchStep
<1>1. flow' = flow /\ given' = given /\ e.kind = "conn" /\ pc = "batch" /\ e \in EventType
  BY EventTypes DEF Recv
<1>2. CASE ~Found(e.flow)
  <2>1. Finish(e) /\ UNCHANGED <<connVars, kernVars, asked, bye>>
    BY <1>2 DEF Recv
  <2>2. BatchStep /\ LoopOK' /\ UserOK'
    BY <1>1, <2>1, FinishStep DEF TypeInv, LoopOK, UserOK, EventType
  <2>3. flow' \in Nat /\ flow <= flow'
    BY <1>1 DEF TypeInv, LoopOK
  <2>4. TablesOK' /\ TableStep
    BY <2>1, <2>3, SameCore DEF OwnInv
  <2> QED BY <2>2, <2>4 DEF Core, TypeInv
<1>3. CASE Found(e.flow)
  <2>1. PICK i \in Live : /\ i = SlotOf(e.flow) /\ slots[i].flow = e.flow
                          /\ slots[i].w \in Seq(Unit) /\ slots[i].r \in Seq(Peer)
                          /\ peerOf[i] \in Peer
                          /\ ~slots[i].udp /\ slots[i].fd = e.fd
                          /\ peerOf[i] = SockAt(e.fd)
    BY <1>1, <1>3, EventConn
  <2> DEFINE s == peerOf[i]
  <2>2. \/ CloseConn({e.flow}, slots, sock) /\ Told({e.flow}) /\ Finish(e) /\ UNCHANGED asked
        \/ slots' = Touched(e.flow) /\ Finish(e) /\ UNCHANGED <<curconn, kernVars, asked, bye>>
        \/ \E n \in recv(s).len :
             LET r == slots[i].r \o [j \in 1 .. n |-> s]
             IN  /\ slots' = [Touched(e.flow) EXCEPT ![SlotOf(e.flow)].r = r]
                 /\ sock' = [sock EXCEPT ![s].rx = @ - n]
                 /\ asked' = [asked EXCEPT ![s] = e.flow]
                 /\ Taken(e)
                 /\ cur' = [e EXCEPT !.len = Len(r)]
                 /\ pc' = "recvdata"
                 /\ UNCHANGED <<curconn, fdtab, ep, ready, bye>>
    BY <1>3, <2>1, ZenonT(60) DEF Recv
  <2> HIDE DEF s
  <2>3. CASE CloseConn({e.flow}, slots, sock) /\ Told({e.flow}) /\ Finish(e) /\ UNCHANGED asked
    <3>1. BatchStep /\ LoopOK'
      BY <1>1, <2>3, FinishStep DEF TypeInv, LoopOK, EventType
    <3>2. UserOK'
      BY <1>1, <2>3, ToldType DEF TypeInv, UserOK
    <3>3. TablesOK' /\ TableStep
      BY <1>1, <2>3, CloseCore DEF OwnInv
    <3> QED BY <3>1, <3>2, <3>3 DEF Core, TypeInv
  <2>4. CASE slots' = Touched(e.flow) /\ Finish(e) /\ UNCHANGED <<curconn, kernVars, asked, bye>>
    <3>1. BatchStep /\ LoopOK' /\ UserOK'
      BY <1>1, <2>4, FinishStep DEF TypeInv, LoopOK, UserOK, EventType
    <3>2. CachesAre(slots', i, slots[i].r, slots[i].w)
      BY <2>1, <2>4, CacheSet
    <3>3. SameSocks(sock') /\ UNCHANGED <<curconn, fdtab, flow, ep, ready>>
      BY <1>1, <2>4 DEF kernVars, SameSocks, TypeInv, TablesOK
    <3>4. TablesOK' /\ TableStep
      BY <2>1, <3>2, <3>3, CacheStep DEF OwnInv
    <3> QED BY <3>1, <3>4 DEF Core, TypeInv
  <2>5. ASSUME NEW n \in recv(s).len, NEW r, r = slots[i].r \o [j \in 1 .. n |-> s],
               slots' = [Touched(e.flow) EXCEPT ![SlotOf(e.flow)].r = r],
               sock' = [sock EXCEPT ![s].rx = @ - n],
               asked' = [asked EXCEPT ![s] = e.flow],
               Taken(e), cur' = [e EXCEPT !.len = Len(r)], pc' = "recvdata",
               UNCHANGED <<curconn, fdtab, ep, ready, bye>>
        PROVE  Core /\ BatchStep
    <3>1. r \in Seq(Peer) /\ Len(r) \in Nat /\ SameSocks(sock')
      <4>1. s \in Peer
        BY <2>1 DEF s
      <4>2. SameSocks(sock') /\ [j \in 1 .. n |-> s] \in Seq(Peer)
        BY <2>5, <4>1, Received
      <4> DEFINE q == [j \in 1 .. n |-> s]
                 p == slots[i].r
      <4>3. p \in Seq(Peer) /\ q \in Seq(Peer) /\ r = p \o q
        BY <2>1, <2>5, <4>2
      <4> HIDE DEF p, q
      <4>4. r \in Seq(Peer) /\ Len(r) \in Nat
        BY <4>3, ConcatProperties, LenProperties
      <4> QED BY <4>2, <4>4
    <3> DEFINE x == [e EXCEPT !.len = Len(r)]
    <3>2. x \in EventType /\ x.kind = e.kind /\ x.flow = e.flow /\ x.fd = e.fd /\ x # None
      <4>1. x \in EventType /\ x.kind = e.kind /\ x.flow = e.flow /\ x.fd = e.fd
        BY <1>1, <3>1 DEF EventType
      <4> QED BY <4>1, EventTypes
    <3> HIDE DEF x
    <3>3. cur' = x
      BY <2>5 DEF x
    <3>4. BatchStep
      BY <1>1, <2>5, <3>2, <3>3 DEF BatchStep
    <3>5. LoopOK'
      BY <1>1, <2>5, <3>2, <3>3 DEF Taken, TypeInv, LoopOK, EventType
    <3>6. UserOK'
      <4>1. e.flow \in Nat
        BY <1>1 DEF EventType
      <4> QED BY <1>1, <2>5, <4>1 DEF TypeInv, UserOK
    <3>7. CachesAre(slots', i, r, slots[i].w)
      BY <2>1, <2>5, <3>1, CacheSet
    <3>8. TablesOK' /\ TableStep
      BY <1>1, <2>1, <2>5, <3>1, <3>7, CacheStep DEF OwnInv
    <3> QED BY <3>4, <3>5, <3>6, <3>8 DEF Core, TypeInv
  <2> QED BY <2>2, <2>3, <2>4, <2>5
<1> QED BY <1>2, <1>3

\* The slot that RecvReturns writes may be free by then, or another connection's.
LEMMA DropRead ==
    ASSUME TypeInv, FreeClean, NEW f \in Nat, NEW n \in Nat,
           slots' = [slots EXCEPT ![SlotOf(f)].r = Drop(@, n)]
    PROVE  \/ slots' = slots
           \/ \E i \in Live : /\ i = SlotOf(f) /\ Drop(slots[i].r, n) \in Seq(Peer)
                              /\ CachesAre(slots', i, Drop(slots[i].r, n), slots[i].w)
<1>1. PICK i \in Slot : i = SlotOf(f)
  BY SlotRange
<1>2. slots \in [Slot -> ConnType] /\ slots[i] \in ConnType /\ slots[i].r \in Seq(Peer)
      /\ slots[i].w \in Seq(Unit)
  BY DEF TypeInv, TablesOK, ConnType
<1> DEFINE q == slots[i].r
           p == Drop(q, n)
<1>3. p \in Seq(Peer)
  <2>1. q \in Seq(Peer)
    BY <1>2
  <2> HIDE DEF q
  <2>2. SubSeq(q, n + 1, Len(q)) \in Seq(Peer)
    BY <2>1, DropElements
  <2> QED BY <2>2 DEF Drop
<1>4. slots' = [slots EXCEPT ![SlotOf(f)].r = p]
  BY <1>1, <1>2
<1>5. CASE i \in Live
  <2> HIDE DEF p
  <2>1. CachesAre([slots EXCEPT ![SlotOf(f)].r = p], i, p, slots[i].w)
    BY <1>1, <1>2, <1>3, <1>5, CacheSet
  <2>2. CachesAre(slots', i, p, slots[i].w)
    BY <1>4, <2>1
  <2> QED BY <1>1, <1>3, <1>5, <2>2 DEF p, q
<1>6. CASE i \notin Live
  <2>1. slots[i] = FreeSlot
    BY <1>6 DEF Live, FreeClean
  <2>2. p = <<>>
    <3>1. <<>> \in Seq(Peer) /\ Len(<<>>) = 0 /\ q = <<>>
      BY <2>1, EmptySeq DEF FreeSlot
    <3>2. SubSeq(q, n + 1, Len(q)) \in Seq(Peer) /\ Len(SubSeq(q, n + 1, Len(q))) = 0
      <4> DEFINE z == <<>>
      <4>1. z \in Seq(Peer) /\ Len(z) = 0 /\ q = z
        BY <3>1
      <4> HIDE DEF z, q
      <4>2. /\ SubSeq(z, n + 1, Len(z)) \in Seq(Peer)
            /\ Len(SubSeq(z, n + 1, Len(z))) = IF n <= Len(z) THEN Len(z) - n ELSE 0
        BY <4>1, DropElements
      <4> QED BY <4>1, <4>2
    <3> QED BY <3>2, EmptySeq DEF Drop
  <2>3. slots[i].r = p
    BY <2>1, <2>2 DEF FreeSlot
  <2> HIDE DEF p
  <2>4. [slots EXCEPT ![i].r = p] = slots
    <3> DEFINE y == slots[i]
               z == [y EXCEPT !.r = p]
    <3>1. z = y
      <4>1. y \in ConnType /\ y.r = p
        BY <1>2, <2>3
      <4> HIDE DEF y
      <4> QED BY <4>1 DEF ConnType
    <3>2. [slots EXCEPT ![i].r = p] = [slots EXCEPT ![i] = z]
      BY <1>2
    <3> HIDE DEF z
    <3> QED BY <1>2, <3>1, <3>2
  <2> QED BY <1>1, <1>4, <2>4
<1> QED BY <1>5, <1>6

\* the callback says how much of the data it has used, or closes
LEMMA RecvReturnsCore ==
    ASSUME TypeInv, OwnInv, RecvReturns
    PROVE  Core /\ BatchStep
<1>1. pc = "recvdata" /\ flow' = flow /\ UNCHANGED userVars
  BY DEF RecvReturns
<1>2. cur \in todo /\ cur # None /\ cur \in EventType /\ cur.kind = "conn" /\ cur \notin batch
      /\ cur \in Events
  <2>1. cur \in todo /\ cur \notin batch
    BY <1>1 DEF OwnInv, EventsOK
  <2>2. cur \in EventType /\ cur.kind = "conn"
    BY <2>1, EventTypes
  <2> QED BY <2>1, <2>2, EventTypes DEF Events
<1>3. UserOK'
  BY <1>1 DEF userVars, TypeInv, UserOK
<1>4. cur.flow \in Nat /\ cur.len \in Nat
  BY <1>2 DEF EventType
<1>5. CASE CloseConn({cur.flow}, slots, sock) /\ Finish(cur)
  <2>1. BatchStep /\ LoopOK'
    BY <1>1, <1>2, <1>5, FinishStep DEF TypeInv, LoopOK, EventType
  <2>2. TablesOK' /\ TableStep
    BY <1>1, <1>5, CloseCore DEF OwnInv
  <2> QED BY <1>3, <2>1, <2>2 DEF Core, TypeInv
<1>6. ASSUME NEW n \in 0 .. cur.len,
             slots' = [slots EXCEPT ![SlotOf(cur.flow)].r = Drop(@, n)],
             cur' = [cur EXCEPT !.len = 0], pc' = "batch",
             UNCHANGED <<curconn, kernVars, batch>>
      PROVE  Core /\ BatchStep
  <2> DEFINE x == [cur EXCEPT !.len = 0]
  <2>1. x \in EventType /\ x.kind = cur.kind /\ x.flow = cur.flow /\ x.fd = cur.fd
    BY <1>2 DEF EventType
  <2> HIDE DEF x
  <2>2. cur' = x
    BY <1>6 DEF x
  <2>3. BatchStep
    <3>1. Taken(cur)
      BY <1>2, <1>6 DEF Taken
    <3> QED BY <1>2, <1>6, <2>1, <2>2, <3>1 DEF BatchStep
  <2>4. LoopOK'
    BY <1>1, <1>6, <2>1, <2>2 DEF TypeInv, LoopOK, EventType
  <2>5. flow' \in Nat /\ flow <= flow'
    BY <1>1 DEF TypeInv, LoopOK
  <2>6. PICK f \in Nat : f = cur.flow
    BY <1>4
  <2>7. n \in Nat /\ slots' = [slots EXCEPT ![SlotOf(f)].r = Drop(@, n)]
    BY <1>4, <1>6, <2>6
  <2>8. CASE slots' = slots
    <3>1. UNCHANGED <<connVars, kernVars>>
      BY <1>6, <2>8 DEF connVars
    <3>2. TablesOK' /\ TableStep
      BY <2>5, <3>1, SameCore DEF OwnInv
    <3> QED BY <1>3, <2>3, <2>4, <3>2 DEF Core, TypeInv
  <2>9. ASSUME NEW i \in Live, NEW p, CachesAre(slots', i, p, slots[i].w)
        PROVE  Core /\ BatchStep
    <3>1. SameSocks(sock') /\ UNCHANGED <<curconn, fdtab, flow, ep, ready>>
      BY <1>1, <1>6 DEF kernVars, SameSocks, TypeInv, TablesOK
    <3>2. TablesOK' /\ TableStep
      BY <2>9, <3>1, CacheStep DEF OwnInv
    <3> QED BY <1>3, <2>3, <2>4, <3>2 DEF Core, TypeInv
  <2>10. FreeClean
    BY DEF OwnInv, Tables
  <2> QED BY <2>7, <2>8, <2>9, <2>10, DropRead
<1> QED BY <1>5, <1>6 DEF RecvReturns

\* Steps that leave the events in work.
LEMMA LoopSame ==
    ASSUME TypeInv, UNCHANGED loopVars, flow' \in Nat
    PROVE  BatchStep /\ LoopOK'
BY DEF loopVars, BatchStep, TypeInv, LoopOK, EventType

\* the callback with a datagram has returned
LEMMA UdpReturnsCore ==
    ASSUME TypeInv, OwnInv, UdpReturns
    PROVE  Core /\ BatchStep
<1>1. flow' \in Nat /\ flow <= flow' /\ UNCHANGED <<connVars, kernVars>>
  BY DEF UdpReturns, TypeInv, LoopOK
<1>2. TablesOK' /\ TableStep
  BY <1>1, SameCore DEF OwnInv
<1>3. LoopOK' /\ UserOK' /\ BatchStep
  BY DEF UdpReturns, TypeInv, LoopOK, UserOK, userVars, BatchStep, EventType
<1> QED BY <1>2, <1>3 DEF Core, TypeInv

\* CConnSet::check_expire
LEMMA CheckExpireCore ==
    ASSUME TypeInv, OwnInv, CheckExpire
    PROVE  Core /\ BatchStep
<1>1. flow' = flow /\ flow \in Nat /\ UNCHANGED <<batch, cur, asked, given>>
      /\ pc' = "wait" /\ batch = {} /\ cur = None
  BY DEF CheckExpire, TypeInv, LoopOK
<1>2. LoopOK' /\ BatchStep
  BY <1>1 DEF TypeInv, LoopOK, BatchStep, EventType
<1>3. CASE UNCHANGED <<connVars, kernVars, bye>>
  <2>1. TablesOK' /\ TableStep
    BY <1>1, <1>3, SameCore DEF OwnInv
  <2>2. UserOK'
    BY <1>1, <1>3 DEF TypeInv, UserOK
  <2> QED BY <1>2, <2>1, <2>2 DEF Core, TypeInv
<1>4. CASE CloseConn(Expired, slots, sock) /\ Told(Expired)
  <2>1. TablesOK' /\ TableStep
    BY <1>1, <1>4, CloseCore DEF OwnInv
  <2>2. UserOK'
    BY <1>1, <1>4, ToldType DEF TypeInv, UserOK
  <2> QED BY <1>2, <2>1, <2>2 DEF Core, TypeInv
<1> QED BY <1>3, <1>4 DEF CheckExpire

\* CTSockCommu::sendto without data closes the connection
LEMMA SendCloseCore ==
    ASSUME TypeInv, OwnInv, NEW s \in Peer, SendClose(s)
    PROVE  Core /\ BatchStep
<1>1. /\ CloseConn({asked[s]}, slots, sock) /\ flow' = flow /\ flow' \in Nat
      /\ UNCHANGED loopVars /\ UNCHANGED userVars
  BY DEF SendClose, TypeInv, LoopOK
<1>2. TablesOK' /\ TableStep
  BY <1>1, CloseCore DEF OwnInv
<1>3. LoopOK' /\ UserOK' /\ BatchStep
  BY <1>1, LoopSame DEF TypeInv, UserOK, userVars
<1> QED BY <1>2, <1>3 DEF Core, TypeInv

\* What user code gives to sendto.
LEMMA DataType ==
    ASSUME TypeInv, NEW s \in Peer, NEW n \in 1 .. MaxRsp
    PROVE  LET data == [k \in 1 .. n |-> <<s, given[s] + k>>]
           IN  data \in Seq(Unit) /\ data # <<>> /\ Len(data) = n /\ n \in Nat
<1> DEFINE data == [k \in 1 .. n |-> <<s, given[s] + k>>]
<1>1. n \in Nat /\ n > 0 /\ given[s] \in Nat
  BY LoopAssumption DEF TypeInv, UserOK
<1>2. \A k \in 1 .. n : <<s, given[s] + k>> \in Unit
  BY <1>1 DEF Unit
<1>3. data \in Seq(Unit) /\ Len(data) = n
  BY <1>1, <1>2
<1>4. data # <<>>
  BY <1>1, <1>3, EmptySeq
<1> QED BY <1>1, <1>3, <1>4

\* sendto with data, when the connection is there
LEMMA SendToFound ==
    ASSUME TypeInv, OwnInv, NEW s \in Peer, NEW n \in 1 .. MaxRsp, SendTo(s, n), Found(asked[s])
    PROVE  LET data == [k \in 1 .. n |-> <<s, given[s] + k>>]
           IN  \E i \in Live, o \in Send(slots[SlotOf(asked[s])], data) :
                 /\ i = SlotOf(asked[s]) /\ slots[i].flow = asked[s]
                 /\ Gone({asked[s]}) = {i}
                 /\ given' = [given EXCEPT ![s] = @ + n]
                 /\ SentOf(o, slots[i].w \o data)
                 /\ ~o.broken /\ o.w # <<>> => o.ret < n
                 /\ CachesAre([Touched(asked[s]) EXCEPT ![i].w = o.w], i, slots[i].r, o.w)
                 /\ \/ /\ o.broken \/ slots[i].udp
                       /\ ClosedOf({i}, [Touched(asked[s]) EXCEPT ![i].w = o.w],
                                   Pushed(slots[i], o.out, o.w = <<>>))
                       /\ TablesOK' /\ Reduced({i})
                    \/ /\ ~o.broken /\ ~slots[i].udp
                       /\ slots' = [Touched(asked[s]) EXCEPT ![i].w = o.w]
                       /\ sock' = Pushed(slots[i], o.out, o.w = <<>>)
                       /\ Watch(peerOf[i], slots[i].fd, slots[i].flow, o.ret < n,
                                Pushed(slots[i], o.out, o.w = <<>>))
                       /\ UNCHANGED <<curconn, fdtab>>
                       /\ TablesOK' /\ Reduced({})
<1> DEFINE f == asked[s]
           data == [k \in 1 .. n |-> <<s, given[s] + k>>]
<1>1. f \in Nat /\ Found(f) /\ flow' = flow /\ flow \in Nat
  BY DEF TypeInv, LoopOK, UserOK, SendTo
<1>2. data \in Seq(Unit) /\ data # <<>> /\ Len(data) = n
  BY DataType
<1>3. PICK o \in Send(slots[SlotOf(f)], data) :
        LET kept == [Touched(f) EXCEPT ![SlotOf(f)].w = o.w]
            sent == Pushed(slots[SlotOf(f)], o.out, o.w = <<>>)
        IN  \/ /\ o.broken \/ slots[SlotOf(f)].udp
               /\ CloseConn({f}, kept, sent)
            \/ /\ ~o.broken /\ ~slots[SlotOf(f)].udp
               /\ slots' = kept
               /\ sock' = sent
               /\ Watch(SockAt(slots[SlotOf(f)].fd), slots[SlotOf(f)].fd, f, o.ret < n, sent)
               /\ UNCHANGED <<curconn, fdtab>>
  BY DEF SendTo
<1>4. given' = [given EXCEPT ![s] = @ + n]
  BY DEF SendTo
<1> HIDE DEF f
<1>5. PICK i \in Live : /\ i = SlotOf(f) /\ slots[i].flow = f
                        /\ slots[i].w \in Seq(Unit) /\ slots[i].r \in Seq(Peer)
                        /\ peerOf[i] \in Peer
                        /\ (~slots[i].udp => peerOf[i] = SockAt(slots[i].fd))
                        /\ Gone({f}) = {i} /\ i \in Slot
  BY <1>1, FoundConn DEF OwnInv
<1> DEFINE kept == [Touched(f) EXCEPT ![i].w = o.w]
           all == o.w = <<>>
           sent == Pushed(slots[i], o.out, all)
<1> HIDE DEF data
<1>6. SentOf(o, slots[i].w \o data) /\ (~o.broken /\ o.w # <<>> => o.ret < n)
  <2> DEFINE c == slots[i]
  <2>1. c.w \in Seq(Unit) /\ o \in Send(c, data)
    BY <1>3, <1>5
  <2> HIDE DEF c
  <2>2. SentOf(o, c.w \o data) /\ (~o.broken /\ o.w # <<>> => o.ret < n)
    BY <1>2, <2>1, SendOf
  <2> QED BY <2>2 DEF c
<1>7. o.w \in Seq(Unit) /\ o.out \in Seq(Unit)
  BY <1>6 DEF SentOf
<1>8. CachesAre(kept, i, slots[i].r, o.w)
  BY <1>5, <1>7, CacheSet
<1>9. SameSocks(sent)
  <2> HIDE DEF all
  <2> QED BY <1>5, <1>7, PushedSock DEF OwnInv, Tables
<1>10. CASE /\ o.broken \/ slots[i].udp
            /\ CloseConn({f}, kept, sent)
  <2>1. SameConns(kept)
    BY <1>8 DEF CachesAre
  <2> DEFINE gone == {i}
  <2>2. gone = Gone({f}) /\ gone \subseteq Live
    BY <1>5
  <2>3. \A j \in Slot \ gone : slots[j].udp => kept[j].w = slots[j].w
    BY <1>8 DEF CachesAre
  <2>4. flow' \in Nat /\ flow <= flow'
    BY <1>1
  <2> HIDE DEF kept, sent, gone
  <2>5. ClosedOf(gone, kept, sent) /\ TablesOK'
    BY <1>9, <1>10, <2>1, <2>2, CloseEffect DEF OwnInv
  <2>6. Reduced(gone)
    BY <1>9, <2>1, <2>2, <2>3, <2>4, <2>5, CloseReduces DEF OwnInv
  <2>7. ClosedOf({i}, kept, sent) /\ TablesOK' /\ Reduced({i})
    BY <2>5, <2>6 DEF gone
  <2> QED BY <1>3, <1>4, <1>5, <1>6, <1>8, <1>10, <2>7 DEF f, data, kept, sent
<1>11. CASE /\ ~o.broken /\ ~slots[i].udp
            /\ slots' = kept
            /\ sock' = sent
            /\ Watch(peerOf[i], slots[i].fd, slots[i].flow, o.ret < n, sent)
            /\ UNCHANGED <<curconn, fdtab>>
  <2>1. CachesAre(slots', i, slots[i].r, o.w) /\ SameSocks(sock')
    BY <1>8, <1>9, <1>11
  <2>2. \E out \in BOOLEAN, sk \in {sock, sock'} :
          Watch(peerOf[i], slots[i].fd, slots[i].flow, out, sk)
    <3> DEFINE out == o.ret < n
    <3>1. out \in BOOLEAN /\ Watch(peerOf[i], slots[i].fd, slots[i].flow, out, sock')
      BY <1>11
    <3> HIDE DEF out
    <3> QED BY <3>1
  <2>3. UNCHANGED <<curconn, fdtab, flow>> /\ ~slots[i].udp
    BY <1>1, <1>11
  <2> HIDE DEF kept, sent, all
  <2>4. TablesOK' /\ Reduced({})
    BY <2>1, <2>2, <2>3, CacheStep DEF OwnInv
  <2> QED BY <1>3, <1>4, <1>5, <1>6, <1>8, <1>11, <2>4 DEF f, data, kept, sent, all
<1> QED BY <1>3, <1>5, <1>10, <1>11

\* CTSockCommu::sendto with data
LEMMA SendToCore ==
    ASSUME TypeInv, OwnInv, NEW s \in Peer, NEW n \in 1 .. MaxRsp, SendTo(s, n)
    PROVE  Core /\ BatchStep
<1>1. flow' = flow /\ flow' \in Nat /\ flow <= flow' /\ UNCHANGED loopVars /\ UNCHANGED <<asked, bye>>
  BY DEF SendTo, TypeInv, LoopOK
<1>2. LoopOK' /\ BatchStep
  BY <1>1, LoopSame
<1>3. CASE ~Found(asked[s])
  <2>1. UNCHANGED <<connVars, kernVars, given>>
    BY <1>3 DEF SendTo
  <2>2. TablesOK' /\ TableStep
    BY <1>1, <2>1, SameCore DEF OwnInv
  <2> QED BY <1>1, <1>2, <2>1, <2>2 DEF Core, TypeInv, UserOK
<1>4. CASE Found(asked[s])
  <2>1. PICK i \in Live : /\ given' = [given EXCEPT ![s] = @ + n]
                          /\ TablesOK' /\ (Reduced({i}) \/ Reduced({}))
    BY <1>4, SendToFound
  <2>2. TableStep
    BY <2>1, LiveType DEF TableStep
  <2>3. n \in Nat
    BY LoopAssumption
  <2> QED BY <1>1, <1>2, <2>1, <2>2, <2>3 DEF Core, TypeInv, UserOK
<1> QED BY <1>3, <1>4

\* CTSockCommu::connect and addconn to a back end
LEMMA ConnectCore ==
    ASSUME TypeInv, OwnInv, NoWrap, ~LateFailure, NEW s \in Back, Connect(s)
    PROVE  Core /\ BatchStep
<1> DEFINE opened == [sock EXCEPT ![s].st = "open", ![s].full = TRUE]
<1>1. /\ sock[s].st \in {"new", "queued"} /\ FreeFd # {} /\ flow' = AddConn(NextFlow).flow
      /\ UNCHANGED loopVars /\ UNCHANGED <<bye, given>>
  BY DEF Connect
<1>2. flow' \in Nat /\ flow <= flow' /\ s \in Peer /\ s \in Tcp \cup Back
  BY <1>1, FlowGrows DEF Peer
<1>3. LoopOK' /\ BatchStep
  BY <1>1, <1>2, LoopSame
<1>4. CASE CloseFds({}, {s}, sock) /\ UNCHANGED <<connVars, asked>>
  <2>1. TablesOK' /\ Reduced({})
    BY <1>1, <1>2, <1>4, DropEffect DEF OwnInv
  <2> QED BY <1>1, <1>3, <1>4, <2>1 DEF Core, TypeInv, UserOK, TableStep
<1>5. CASE /\ AddConn(NextFlow).ok
           /\ slots' = AddedSlot(AddConn(NextFlow).flow, Min(FreeFd), s)
           /\ curconn' = curconn + 1
           /\ sock' = opened
           /\ fdtab' = [fdtab EXCEPT ![Min(FreeFd)] = s]
           /\ Watch(s, Min(FreeFd), AddConn(NextFlow).flow, FALSE, opened)
           /\ asked' = [asked EXCEPT ![s] = AddConn(NextFlow).flow]
  <2> DEFINE k == [sock[s] EXCEPT !.st = "open", !.full = TRUE]
             sk == opened
  <2>1. sock \in [Peer -> SockType]
    BY DEF TypeInv, TablesOK
  <2>2. k \in SockType /\ k.st = "open" /\ sock' = [sock EXCEPT ![s] = k]
    <3>1. k \in SockType /\ k.st = "open"
      BY <1>2, <2>1 DEF SockType
    <3>2. sock' = [sock EXCEPT ![s] = k]
      BY <1>2, <1>5, <2>1
    <3> QED BY <3>1, <3>2
  <2>3. Watch(s, Min(FreeFd), AddConn(NextFlow).flow, FALSE, sk)
    BY <1>5
  <2> HIDE DEF k, sk, opened
  <2>4. TablesOK' /\ Added(AddConn(NextFlow).flow, Min(FreeFd), s)
    BY <1>1, <1>2, <1>5, <2>2, <2>3, AddEffect DEF OwnInv
  <2>5. AddConn(NextFlow).flow \in Nat /\ Min(FreeFd) \in Nat
    BY <1>1, FlowGrows, LeastFd DEF Fd
  <2>6. UserOK'
    BY <1>1, <1>5, <2>5 DEF TypeInv, UserOK
  <2> QED BY <1>2, <1>3, <2>4, <2>5, <2>6 DEF Core, TypeInv, TableStep
<1> HIDE DEF opened
<1>6. \/ CloseFds({}, {s}, sock) /\ UNCHANGED <<connVars, asked>>
      \/ /\ AddConn(NextFlow).ok
         /\ slots' = AddedSlot(AddConn(NextFlow).flow, Min(FreeFd), s)
         /\ curconn' = curconn + 1
         /\ sock' = opened
         /\ fdtab' = [fdtab EXCEPT ![Min(FreeFd)] = s]
         /\ Watch(s, Min(FreeFd), AddConn(NextFlow).flow, FALSE, opened)
         /\ asked' = [asked EXCEPT ![s] = AddConn(NextFlow).flow]
  BY DEF Connect, opened
<1> QED BY <1>4, <1>5, <1>6

\* The peer does something.
LEMMA ChangedCore ==
    ASSUME TypeInv, OwnInv, NEW s \in Peer, NEW k \in SockType, sock[s].st = "open" => k.st = "open",
           NEW wake, Changed(s, k, wake)
    PROVE  Core /\ BatchStep
<1>1. /\ sock' = [sock EXCEPT ![s] = k] /\ ready \subseteq ready' /\ ready' \subseteq ready \cup {s}
      /\ s \in ready' => ep[s].on \/ s \in ready
      /\ UNCHANGED <<connVars, fdtab, ep, flow>> /\ UNCHANGED loopVars /\ UNCHANGED userVars
  BY DEF Changed
<1>2. flow' \in Nat /\ flow <= flow'
  BY <1>1 DEF TypeInv, LoopOK
<1>3. TablesOK'
  <2>1. sock' \in [Peer -> SockType] /\ ready' \in SUBSET Peer
    BY <1>1 DEF TypeInv, TablesOK
  <2> QED BY <1>1, <2>1 DEF connVars, TypeInv, TablesOK, ConnType, WatchType, SockType, Unit
<1>4. Reduced({})
  <2>1. \A x \in Peer : (x \in ready' => ep'[x].on) /\ (sock[x].st = "open" => sock'[x].st = "open")
    BY <1>1 DEF TypeInv, TablesOK, OwnInv, Tables, NoLeak
  <2> QED BY <1>1, <1>2, <2>1, SteadyReduces DEF connVars, OwnInv
<1>5. UserOK'
  BY <1>1 DEF TypeInv, UserOK, userVars
<1> QED BY <1>1, <1>2, <1>3, <1>4, <1>5, LoopSame DEF Core, TypeInv, TableStep

\* What a socket may become by what its peer does.
LEMMA WorldSock ==
    ASSUME TypeInv, World, ~\E i \in Slot : Ages(i)
    PROVE  \E s \in Peer, k \in SockType, wake \in BOOLEAN :
             /\ Changed(s, k, wake)
             /\ k.got = sock[s].got /\ (sock[s].st = "open" => k.st = "open")
             /\ sock[s].st \in {"new", "queued", "open"}
             /\ k.st \in {"new", "queued"} => sock[s].st \in {"new", "queued"}
             /\ k.st # "gone"
             /\ Readable(k) /\ sock[s].st # "new" => Readable(sock[s]) \/ wake
             /\ k.full => sock[s].full
             /\ ~k.full /\ sock[s].full /\ ep[s].out => wake
<1>1. sock \in [Peer -> SockType] /\ ep \in [Peer -> WatchType]
  BY DEF TypeInv, TablesOK
<1>2. ASSUME NEW s \in Tcp \cup Udp, PeerConnects(s)
      PROVE  \E k \in SockType :
               /\ Changed(s, k, FALSE) /\ k.got = sock[s].got /\ k.st = "queued" /\ sock[s].st = "new"
               /\ k.full = sock[s].full
  <2> DEFINE x == IF s \in Udp THEN 1 ELSE 0
             k == [sock[s] EXCEPT !.st = "queued", !.rx = x]
  <2>1. s \in Peer /\ sock[s].st = "new" /\ Changed(s, k, FALSE) /\ x \in Nat
    BY <1>2 DEF PeerConnects, Peer
  <2> HIDE DEF x
  <2>2. k \in SockType /\ k.got = sock[s].got /\ k.st = "queued" /\ k.full = sock[s].full
    BY <1>1, <2>1 DEF SockType
  <2> HIDE DEF k
  <2> QED BY <2>1, <2>2
<1>3. ASSUME NEW s \in Tcp \cup Back,
             PeerSends(s) \/ PeerCloses(s) \/ PeerResets(s)
      PROVE  \E k \in SockType :
               /\ Changed(s, k, TRUE) /\ k.got = sock[s].got /\ k.st = sock[s].st
               /\ sock[s].st \in {"queued", "open"} /\ (k.full => sock[s].full)
  <2>1. s \in Peer /\ sock[s] \in SockType /\ sock[s].st \in {"queued", "open"}
    BY <1>1, <1>3 DEF Peer, PeerSends, PeerCloses, PeerResets, Alive
  <2>2. CASE PeerSends(s)
    <3> DEFINE m == sock[s].rx + 1
               n == sock[s].sent + 1
               k == [sock[s] EXCEPT !.rx = m, !.sent = n]
    <3>1. Changed(s, k, TRUE)
      BY <2>2 DEF PeerSends
    <3>3. m \in Nat /\ n \in Nat
      BY <2>1 DEF SockType
    <3> HIDE DEF m, n
    <3>2. k \in SockType /\ k.got = sock[s].got /\ k.st = sock[s].st /\ k.full = sock[s].full
      BY <2>1, <3>3 DEF SockType
    <3> HIDE DEF k
    <3> QED BY <2>1, <3>1, <3>2
  <2>3. CASE PeerCloses(s)
    <3> DEFINE k == [sock[s] EXCEPT !.peer = "fin"]
    <3>1. Changed(s, k, TRUE)
      BY <2>3 DEF PeerCloses
    <3>2. k \in SockType /\ k.got = sock[s].got /\ k.st = sock[s].st /\ k.full = sock[s].full
      BY <2>1 DEF SockType
    <3> HIDE DEF k
    <3> QED BY <2>1, <3>1, <3>2
  <2>4. CASE PeerResets(s)
    <3> DEFINE k == [sock[s] EXCEPT !.peer = "rst", !.rx = 0, !.full = FALSE]
    <3>1. Changed(s, k, TRUE)
      BY <2>4 DEF PeerResets
    <3>2. k \in SockType /\ k.got = sock[s].got /\ k.st = sock[s].st /\ ~k.full
      BY <2>1 DEF SockType
    <3> HIDE DEF k
    <3> QED BY <2>1, <3>1, <3>2
  <2> QED BY <1>3, <2>2, <2>3, <2>4
<1>4. ASSUME NEW s \in Tcp \cup Back, PeerReads(s)
      PROVE  \E k \in SockType :
               /\ Changed(s, k, ep[s].out) /\ k.got = sock[s].got /\ k.st = sock[s].st
               /\ sock[s].st \in {"queued", "open"} /\ ~k.full /\ (Readable(k) => Readable(sock[s]))
  <2> DEFINE k == [sock[s] EXCEPT !.full = FALSE]
  <2>1. s \in Peer /\ sock[s] \in SockType /\ sock[s].st \in {"queued", "open"}
        /\ Changed(s, k, ep[s].out)
    BY <1>1, <1>4 DEF Peer, PeerReads, Alive
  <2>2. k \in SockType /\ k.got = sock[s].got /\ k.st = sock[s].st /\ ~k.full
        /\ k.rx = sock[s].rx /\ k.peer = sock[s].peer
    BY <2>1 DEF SockType
  <2> HIDE DEF k
  <2>3. Readable(k) => Readable(sock[s])
    BY <2>2 DEF Readable
  <2> QED BY <2>1, <2>2, <2>3
<1>5. \/ \E s \in Tcp \cup Udp : PeerConnects(s)
      \/ \E s \in Tcp \cup Back : PeerSends(s) \/ PeerCloses(s) \/ PeerResets(s)
      \/ \E s \in Tcp \cup Back : PeerReads(s)
  BY DEF World
<1>6. ASSUME NEW s \in Tcp \cup Back PROVE s \in Peer /\ ep[s].out \in BOOLEAN
  BY <1>1 DEF Peer, WatchType
<1>7. ASSUME NEW s \in Tcp \cup Udp PROVE s \in Peer
  BY DEF Peer
<1>8. CASE \E s \in Tcp \cup Udp : PeerConnects(s)
  BY <1>2, <1>7, <1>8
<1>9. CASE \E s \in Tcp \cup Back : PeerSends(s) \/ PeerCloses(s) \/ PeerResets(s)
  BY <1>3, <1>6, <1>9
<1>10. CASE \E s \in Tcp \cup Back : PeerReads(s)
  BY <1>4, <1>6, <1>10
<1> QED BY <1>5, <1>8, <1>9, <1>10

\* The peers and the kernel change no table.
LEMMA WorldCore ==
    ASSUME TypeInv, OwnInv, World
    PROVE  Core /\ BatchStep
<1>1. CASE ~\E i \in Slot : Ages(i)
  <2>1. PICK s \in Peer, k \in SockType, wake \in BOOLEAN :
           Changed(s, k, wake) /\ (sock[s].st = "open" => k.st = "open")
    BY <1>1, WorldSock
  <2> QED BY <2>1, ChangedCore
<1>2. ASSUME NEW i \in Slot, Ages(i) PROVE Core /\ BatchStep
  <2> DEFINE c == [slots[i] EXCEPT !.idle = TRUE]
  <2>1. slots \in [Slot -> ConnType] /\ i \in Live
    BY <1>2 DEF Ages, Live, TypeInv, TablesOK
  <2>2. slots' = [slots EXCEPT ![i] = c]
    BY <1>2, <2>1 DEF Ages
  <2>3. /\ c \in ConnType /\ c.flow = slots[i].flow /\ c.fd = slots[i].fd /\ c.udp = slots[i].udp
        /\ c.addr = slots[i].addr /\ c.r = slots[i].r /\ c.w = slots[i].w
    BY <2>1 DEF ConnType
  <2> HIDE DEF c
  <2>4. CachesAre(slots', i, slots[i].r, slots[i].w)
    BY <2>1, <2>2, <2>3, OneSlot DEF CachesAre
  <2>5. /\ SameSocks(sock') /\ UNCHANGED <<curconn, fdtab, flow, ep, ready>> /\ flow' \in Nat
        /\ UNCHANGED loopVars /\ UNCHANGED userVars
    BY <1>2 DEF Ages, kernVars, SameSocks, TypeInv, TablesOK, LoopOK
  <2>6. TablesOK' /\ TableStep
    BY <2>1, <2>4, <2>5, CacheStep DEF OwnInv
  <2>7. UserOK'
    BY <2>5 DEF userVars, TypeInv, UserOK
  <2> QED BY <2>5, <2>6, <2>7, LoopSame DEF Core, TypeInv
<1> QED BY <1>1, <1>2

\* The initial tables are empty.
LEMMA CoreInit ==
    Init => TypeInv /\ OwnInv
<1> SUFFICES ASSUME Init PROVE TypeInv /\ OwnInv
  OBVIOUS
<1>1. /\ slots = [i \in Slot |-> FreeSlot] /\ curconn = 0 /\ fdtab = [d \in Fd |-> NoSock]
      /\ sock = [s \in Peer |-> NewSock] /\ ep = [s \in Peer |-> NotWatched] /\ ready = {}
      /\ flow = 0 /\ pc = "wait" /\ batch = {} /\ cur = None
      /\ asked = [s \in Peer |-> 0] /\ bye = [f \in Flow |-> 0] /\ given = [s \in Peer |-> 0]
  BY DEF Init, ConnInit
<1>2. TypeInv
  <2>1. TablesOK
    BY <1>1, RecordTypes DEF TablesOK
  <2>2. LoopOK /\ UserOK
    BY <1>1 DEF LoopOK, UserOK
  <2> QED BY <2>1, <2>2 DEF TypeInv
<1>3. \A i \in Slot : slots[i] = FreeSlot /\ slots[i].flow = 0
  BY <1>1 DEF FreeSlot
<1>4. Live = {} /\ todo = {}
  BY <1>1, <1>3 DEF Live, todo
<1>5. Counted
  BY <1>1, <1>4, FS_EmptySet DEF Counted
<1>6. NoLeak
  BY <1>1 DEF NoLeak, NotWatched
<1>7. FreeClean /\ Placed /\ OwnPeer
  BY <1>3, <1>4 DEF FreeClean, Placed, OwnPeer
<1>8. EventsOK
  BY <1>1, <1>4 DEF EventsOK
<1> QED BY <1>2, <1>5, <1>6, <1>7, <1>8 DEF OwnInv, Tables

\* Every step leaves the tables, and the events of connections, in order.
LEMMA CoreStep ==
    ASSUME TypeInv, OwnInv, NoWrap, ~LateFailure, [Next]_vars
    PROVE  TypeInv' /\ OwnInv' /\ FlowsKept
<1> DEFINE Done == Core /\ (BatchStep \/ EventsOK')
<1>1. ASSUME Next PROVE Done
  <2>1. CASE Program
    <3>1. CASE Wait
      BY <3>1, WaitCore
    <3>2. CASE \E e \in Events : Accept(e)
      BY <3>2, AcceptCore
    <3>3. CASE \E e \in Events : AcceptUdp(e)
      BY <3>3, AcceptUdpCore
    <3>4. CASE \E e \in Events : Abnormal(e)
      BY <3>4, AbnormalCore
    <3>5. CASE \E e \in Events : Writable(e)
      BY <3>5, WritableCore
    <3>6. CASE \E e \in Events : Recv(e)
      BY <3>6, RecvCore
    <3>7. CASE RecvReturns
      BY <3>7, RecvReturnsCore
    <3>8. CASE UdpReturns
      BY <3>8, UdpReturnsCore
    <3>9. CASE CheckExpire
      BY <3>9, CheckExpireCore
    <3> QED BY <2>1, <3>1, <3>2, <3>3, <3>4, <3>5, <3>6, <3>7, <3>8, <3>9 DEF Program
  <2>2. CASE User
    <3>1. CASE \E s \in Peer : SendClose(s)
      BY <3>1, SendCloseCore
    <3>2. CASE \E s \in Peer : \E n \in 1 .. MaxRsp : SendTo(s, n)
      BY <3>2, SendToCore
    <3>3. CASE \E s \in Back : Connect(s)
      BY <3>3, ConnectCore
    <3> QED BY <2>2, <3>1, <3>2, <3>3 DEF User
  <2>3. CASE World
    BY <2>3, WorldCore
  <2> QED BY <1>1, <2>1, <2>2, <2>3 DEF Next
<1>2. ASSUME UNCHANGED vars PROVE Done
  <2>1. /\ UNCHANGED <<connVars, kernVars>> /\ flow' = flow /\ UNCHANGED loopVars /\ UNCHANGED userVars
        /\ flow' \in Nat /\ flow <= flow'
    BY <1>2 DEF vars, TypeInv, LoopOK
  <2>2. TablesOK' /\ TableStep
    BY <2>1, SameCore DEF OwnInv
  <2> QED BY <2>1, <2>2, LoopSame DEF Core, TypeInv, UserOK, userVars
<1>3. Core /\ (BatchStep \/ EventsOK')
  BY <1>1, <1>2
<1>4. Tables' /\ FlowsKept
  BY <1>3, ReducedStep, AddedStep DEF Core, TableStep, OwnInv
<1>5. EventsOK'
  BY <1>3, <1>4, EventsKept DEF Core, OwnInv
<1> QED BY <1>3, <1>4, <1>5 DEF Core, OwnInv

\* The types of the state, and what the tables are, in every state of a run in which no
\* connection fails between addconn and epoll_ctl and flow_ does not wrap.
THEOREM TypeCorrect ==
    ASSUME ~LateFailure
    PROVE  Spec /\ []NoWrap => [](TypeInv /\ OwnInv)
<1>1. Init => TypeInv /\ OwnInv
  BY CoreInit
<1>2. TypeInv /\ OwnInv /\ NoWrap /\ [Next]_vars => (TypeInv /\ OwnInv)'
  BY CoreStep
<1> QED BY <1>1, <1>2, PTL DEF Spec

\* addconn and closeconn: slots, descriptors, registrations and the count of connections
\* belong to each other.
THEOREM DescriptorsAreOwned ==
    ASSUME ~LateFailure
    PROVE  Spec /\ []NoWrap => []DescriptorsOwned
<1>1. TypeInv /\ OwnInv => DescriptorsOwned
  <2> SUFFICES ASSUME TypeInv, OwnInv PROVE DescriptorsOwned
    OBVIOUS
  <2> USE DEF OwnInv, Tables
  <2>1. ASSUME NEW i \in Slot, slots[i].flow # 0, ~slots[i].udp
        PROVE  LET s == SockAt(slots[i].fd)
               IN  s # NoSock /\ ep[s].on /\ ep[s].flow = slots[i].flow /\ ep[s].fd = slots[i].fd
    <3>1. i \in Live
      BY <2>1 DEF Live
    <3>2. peerOf[i] = SockAt(slots[i].fd)
      BY <2>1 DEF peerOf, Target
    <3> QED BY <2>1, <3>1, <3>2, PeerAssumption DEF Placed
  <2>2. ASSUME NEW d \in Fd, fdtab[d] # NoSock
        PROVE  \E i \in Slot : slots[i].flow # 0 /\ ~slots[i].udp /\ slots[i].fd = d
    BY <2>2 DEF NoLeak, Live
  <2>3. curconn = Cardinality({i \in Slot : slots[i].flow # 0})
    BY DEF Counted, Live
  <2> QED BY <2>1, <2>2, <2>3 DEF DescriptorsOwned
<1> QED BY <1>1, TypeCorrect, PTL

-----------------------------------------------------------------------------
(* Data                                                                    *)

\* A connection that has been closed is over: it is told so once.
ByeOnce == \A f \in Flow : bye[f] # 0 => /\ bye[f] = 1 /\ f \in 1 .. flow
                                         /\ ~Found(f) /\ \A e \in todo : e.flow # f

\* A read cache holds what its own peer sent.
ReadOwn == \A i \in Live : \A k \in 1 .. Len(slots[i].r) : slots[i].r[k] = peerOf[i]

\* the units of q are those after the n-th that were meant for s
Numbered(q, s, n) == \A k \in 1 .. Len(q) : q[k] = <<s, n + k>>

\* The kernel has taken for a peer what was meant for it, from the first unit on.
GotOwn == \A s \in Peer : Numbered(sock[s].got, s, 0)

\* What was given to sendto for the peer of i is what the kernel took, and what waits.
StreamOf(i) ==
    /\ Len(sock[peerOf[i]].got) + Len(slots[i].w) = given[peerOf[i]]
    /\ Numbered(slots[i].w, peerOf[i], Len(sock[peerOf[i]].got))

Stream == \A i \in Live : StreamOf(i)

\* A peer that has no connection yet has nothing.
Unused(s) == sock[s].st \in {"new", "queued"} => sock[s].got = <<>> /\ given[s] = 0 /\ asked[s] = 0

\* The flow user code knows s by is that of s.
Known(s) == asked[s] # 0 => /\ asked[s] \in 1 .. flow
                            /\ Found(asked[s]) => peerOf[SlotOf(asked[s])] = s

Fresh == \A s \in Peer : Unused(s) /\ Known(s)

DataInv == GotOwn /\ Stream /\ Fresh

\* s is on the ready list, or an event will have its input, or its output, looked at.
InSeen(s) == s \in ready \/ \E e \in todo : e.flow = ep[s].flow /\ e.ev # {"out"}

OutSeen(s) == s \in ready \/ \E e \in todo : e.flow = ep[s].flow /\ e.ev # {"in"}

\* A socket that has something to read has an event, or will have one.
InputSeen == \A s \in Peer : ep[s].on /\ Readable(sock[s]) => InSeen(s)

\* What waits for s in slot i is waiting for the socket, or its event is on the way.
OutOf(i, s) == slots[i].w # <<>> => ep[s].out /\ (sock[s].full \/ OutSeen(s))

OutputSeen == \A i \in Live, s \in Peer : peerOf[i] = s => OutOf(i, s)

-----------------------------------------------------------------------------
(* What kind of step it is                                                 *)

\* Events that announce input, or output, are kept but for those of the flows of F.
InKept(F) == \A e \in todo : e.ev # {"out"} /\ Found(e.flow) =>
               e.flow \in F \/ \E x \in todo' : x.flow = e.flow /\ x.ev # {"out"}

OutKept(F) == \A e \in todo : e.ev # {"in"} /\ Found(e.flow) =>
                e.flow \in F \/ \E x \in todo' : x.flow = e.flow /\ x.ev # {"in"}

EventsStay(F) == InKept(F) /\ OutKept(F)

\* sockets that differ only in what has arrived on them
SameSock(k, x) == x.st = k.st /\ x.got = k.got /\ x.full = k.full

\* Nothing happens to the connections.
Quiet == UNCHANGED <<connVars, kernVars, asked, given>> /\ EventsStay({})

\* closeconn
Closes == \E F \in SUBSET Nat :
            /\ Reduced(Gone(F)) /\ ClosedOf(Gone(F), slots, sock)
            /\ UNCHANGED <<asked, given>> /\ EventsStay(F)

\* A socket is closed that no connection has.
Drops == \E s \in Peer :
           /\ sock[s].st \in {"new", "queued"}
           /\ Reduced({}) /\ slots' = slots /\ fdtab' = fdtab /\ ready' = ready \ {s}
           /\ \A x \in Peer : /\ sock'[x] = IF x = s THEN GoneSock(sock[x]) ELSE sock[x]
                              /\ ep'[x] = IF x = s THEN NotWatched ELSE ep[x]
           /\ UNCHANGED <<asked, given>> /\ EventsStay({})

\* addconn
Connects == \E f \in Nat, d \in Nat, s \in Peer :
              /\ Added(f, d, s)
              /\ sock'[s].got = sock[s].got /\ slots'[SlotOf(f)].r \in {<<>>, Append(<<>>, s)}
              /\ s \notin Udp /\ Readable(sock'[s]) => s \in ready'
              /\ ready \subseteq ready'
              /\ asked' \in {asked, [asked EXCEPT ![s] = f]}
              /\ given' = given /\ EventsStay({})

\* recv, or what was received has been understood
Reads == \E i \in Live, p \in Seq(Peer) :
           /\ Reduced({}) /\ CachesAre(slots', i, p, slots[i].w)
           /\ \A k \in 1 .. Len(p) : \/ p[k] = peerOf[i]
                                     \/ \E m \in 1 .. Len(slots[i].r) : p[k] = slots[i].r[m]
           /\ \A x \in Peer : /\ SameSock(sock[x], sock'[x])
                              /\ Readable(sock'[x]) => Readable(sock[x])
           /\ UNCHANGED <<ep, ready, given>>
           /\ asked' \in {asked, [asked EXCEPT ![peerOf[i]] = slots[i].flow]}
           /\ OutKept({})
           /\ InKept({}) \/ (~Readable(sock[peerOf[i]]) /\ InKept({slots[i].flow}))

\* `all' was to be sent for the peer of i, and the step is no close: o says how much was.
Sent(i, all, o) ==
    /\ Reduced({}) /\ ~slots[i].udp /\ SentOf(o, all) /\ ~o.broken
    /\ CachesAre(slots', i, slots[i].r, o.w)
    /\ sock'[peerOf[i]].st = sock[peerOf[i]].st
    /\ sock'[peerOf[i]].got = sock[peerOf[i]].got \o o.out
    /\ o.w # <<>> => sock'[peerOf[i]].full
    /\ \A x \in Peer : Readable(sock'[x]) => Readable(sock[x])
    /\ \A x \in Peer \ {peerOf[i]} : sock'[x] = sock[x] /\ ep'[x] = ep[x]
    /\ ready \subseteq ready'
    /\ asked' = asked

\* sendfromcache
Writes == \E i \in Live : \E o \in SendFromCache(slots[i]) :
            /\ Sent(i, slots[i].w, o)
            /\ o.w # <<>> => slots[i].w # <<>> /\ ep' = ep
            /\ given' = given /\ InKept({}) /\ OutKept({slots[i].flow})

\* what user code gives to sendto
Data(s, n) == [k \in 1 .. n |-> <<s, given[s] + k>>]

\* sendto: the connection stays, or is closed when the socket is broken or a datagram's
SentNow(s, n, i, o) ==
    /\ i \in Live /\ i = SlotOf(asked[s]) /\ Found(asked[s])
    /\ given' = [given EXCEPT ![s] = @ + n] /\ asked' = asked
    /\ EventsStay({})
    /\ SentOf(o, slots[i].w \o Data(s, n))
    /\ \/ \E base : /\ Reduced({i})
                    /\ ClosedOf({i}, base, Pushed(slots[i], o.out, o.w = <<>>))
                    /\ CachesAre(base, i, slots[i].r, o.w)
       \/ /\ Sent(i, slots[i].w \o Data(s, n), o)
          /\ o.w # <<>> => ep'[peerOf[i]].out

Sends == \E s \in Peer : \E n \in 1 .. MaxRsp : \E i, o : SentNow(s, n, i, o)

\* The peer does something.
Moves == \E s \in Peer, k \in SockType, wake \in BOOLEAN :
           /\ Changed(s, k, wake) /\ Reduced({})
           /\ k.got = sock[s].got /\ (sock[s].st = "open" => k.st = "open")
           /\ k.st \in {"new", "queued"} => sock[s].st \in {"new", "queued"}
           /\ Readable(k) /\ sock[s].st # "new" => Readable(sock[s]) \/ wake
           /\ ~k.full /\ sock[s].full /\ ep[s].out => wake
           /\ EventsStay({})

\* Without a change of the batch no event is lost.
LEMMA TodoSame ==
    ASSUME UNCHANGED <<batch, cur>> PROVE \A F : EventsStay(F)
<1>1. todo' = todo
  BY DEF todo
<1> QED BY <1>1 DEF EventsStay, InKept, OutKept

\* Taking an event loses that event only, and none of another connection.
LEMMA TodoTaken ==
    ASSUME TypeInv, EventsOK, NEW e \in Events, Taken(e)
    PROVE  /\ \A x \in todo : x = e \/ x \in todo'
           /\ cur' # None /\ cur'.kind = "conn" => cur' \in todo'
           /\ e.kind # "conn" => EventsStay({})
           /\ EventsStay({e.flow})
<1>1. batch' = batch \ {e} /\ None \notin EventType /\ batch \subseteq EventType
  BY EventTypes DEF Taken, TypeInv, LoopOK
<1>2. \A x \in todo : x = e \/ x \in todo'
  BY <1>1, EventTypes DEF todo, Events, EventsOK
<1>3. cur' # None /\ cur'.kind = "conn" => cur' \in todo'
  BY DEF todo
<1>4. e.kind # "conn" => e \notin todo
  BY EventTypes
<1> QED BY <1>2, <1>3, <1>4 DEF EventsStay, InKept, OutKept

\* A socket that no connection has is closed.
LEMMA DropKind ==
    ASSUME TypeInv, OwnInv, NEW s \in Peer, sock[s].st \in {"new", "queued"},
           CloseFds({}, {s}, sock), UNCHANGED connVars, flow' \in Nat, flow <= flow',
           UNCHANGED <<asked, given>>, EventsStay({})
    PROVE  Drops
<1>1. /\ Reduced({}) /\ fdtab' = fdtab /\ ready' = ready \ {s}
      /\ \A x \in Peer : /\ sock'[x] = IF x = s THEN GoneSock(sock[x]) ELSE sock[x]
                         /\ ep'[x] = IF x = s THEN NotWatched ELSE ep[x]
  BY DropEffect DEF OwnInv
<1>2. slots' = slots
  BY DEF connVars
<1> QED BY <1>1, <1>2 DEF Drops

\* A connection over a socket is taken into the tables.
LEMMA ConnectKind ==
    ASSUME TypeInv, OwnInv, NoWrap, NEW s \in Tcp \cup Back, sock[s].st \in {"new", "queued"},
           NEW k \in SockType, k.st = "open", k.got = sock[s].got, NEW sk,
           Readable(k) => Readable(sk[s]), FreeFd # {}, AddConn(NextFlow).ok,
           flow' = AddConn(NextFlow).flow,
           slots' = AddedSlot(AddConn(NextFlow).flow, Min(FreeFd), s),
           curconn' = curconn + 1,
           sock' = [sock EXCEPT ![s] = k],
           fdtab' = [fdtab EXCEPT ![Min(FreeFd)] = s],
           Watch(s, Min(FreeFd), AddConn(NextFlow).flow, FALSE, sk),
           asked' \in {asked, [asked EXCEPT ![s] = AddConn(NextFlow).flow]}, given' = given,
           EventsStay({})
    PROVE  Connects
<1> DEFINE f == AddConn(NextFlow).flow
           d == Min(FreeFd)
<1>1. /\ Added(f, d, s) /\ slots'[SlotOf(f)].r = <<>> /\ ready \subseteq ready'
      /\ EventsOf(sk[s], FALSE) # {} => s \in ready'
  BY AddEffect DEF OwnInv
<1>2. f \in Nat /\ d \in Nat /\ s \in Peer
  BY FlowGrows, LeastFd DEF Fd, Peer
<1>3. asked' \in {asked, [asked EXCEPT ![s] = f]}
  OBVIOUS
<1> HIDE DEF f, d
<1>4. sock'[s] = k
  BY <1>2 DEF TypeInv, TablesOK
<1>5. Readable(sock'[s]) => s \in ready'
  BY <1>1, <1>4 DEF EventsOf
<1> QED BY <1>1, <1>2, <1>3, <1>4, <1>5 DEF Connects

\* handle_accept
LEMMA AcceptKind ==
    ASSUME TypeInv, OwnInv, NoWrap, ~LateFailure, NEW e \in Events, Accept(e)
    PROVE  Quiet \/ Drops \/ Connects
<1> USE DEF OwnInv
<1>1. EventsStay({})
  BY TodoTaken DEF Accept, Finish
<1>2. PICK s \in Waiting(Tcp) :
         \/ /\ FreeFd = {}
            /\ UNCHANGED <<connVars, kernVars, flow, userVars>>
         \/ /\ FreeFd # {}
            /\ flow' = NextFlow
            /\ CloseFds({}, {s}, sock)
            /\ UNCHANGED <<connVars, asked, bye, given>>
         \/ LET d == Min(FreeFd)
                a == AddConn(NextFlow)
            IN  /\ FreeFd # {}
                /\ flow' = a.flow
                /\ \/ /\ ~a.ok
                      /\ CloseFds({}, {s}, sock)
                      /\ UNCHANGED connVars
                   \/ /\ a.ok
                      /\ slots' = AddedSlot(a.flow, d, s)
                      /\ curconn' = curconn + 1
                      /\ sock' = Queued(s, "open")
                      /\ fdtab' = [fdtab EXCEPT ![d] = s]
                      /\ Watch(s, d, a.flow, FALSE, sock)
                /\ UNCHANGED <<asked, bye, given>>
  BY DEF Accept
<1>3. s \in Tcp /\ s \in Peer /\ s \in Tcp \cup Back /\ sock[s].st \in {"new", "queued"}
  BY DEF Waiting, Peer
<1>4. UNCHANGED <<asked, given>>
  BY <1>2 DEF userVars
<1>5. flow' \in Nat /\ flow <= flow'
  <2>1. flow' \in {flow, NextFlow, AddConn(NextFlow).flow}
    BY <1>2
  <2>2. flow \in Nat
    BY DEF TypeInv, LoopOK
  <2> QED BY <2>1, <2>2, FlowGrows
<1>6. CASE UNCHANGED <<connVars, kernVars>>
  BY <1>1, <1>4, <1>6 DEF Quiet
<1>7. CASE CloseFds({}, {s}, sock) /\ UNCHANGED connVars
  BY <1>1, <1>3, <1>4, <1>5, <1>7, DropKind
<1>8. CASE /\ FreeFd # {} /\ AddConn(NextFlow).ok /\ flow' = AddConn(NextFlow).flow
           /\ slots' = AddedSlot(AddConn(NextFlow).flow, Min(FreeFd), s)
           /\ curconn' = curconn + 1
           /\ sock' = Queued(s, "open")
           /\ fdtab' = [fdtab EXCEPT ![Min(FreeFd)] = s]
           /\ Watch(s, Min(FreeFd), AddConn(NextFlow).flow, FALSE, sock)
  <2> DEFINE k == [sock[s] EXCEPT !.st = "open"]
  <2>1. k \in SockType /\ k.st = "open" /\ sock' = [sock EXCEPT ![s] = k]
    BY <1>3, <1>8, QueuedType
  <2>2. k.got = sock[s].got /\ k.rx = sock[s].rx /\ k.peer = sock[s].peer
    BY <1>3 DEF TypeInv, TablesOK, SockType
  <2> HIDE DEF k
  <2>3. Readable(k) => Readable(sock[s])
    BY <2>2 DEF Readable
  <2>4. asked' \in {asked, [asked EXCEPT ![s] = AddConn(NextFlow).flow]}
    BY <1>4
  <2> QED BY <1>1, <1>3, <1>4, <1>8, <2>1, <2>2, <2>3, <2>4, ConnectKind
<1> QED BY <1>2, <1>6, <1>7, <1>8

\* handle_accept_udp
LEMMA AcceptUdpKind ==
    ASSUME TypeInv, OwnInv, NoWrap, NEW e \in Events, AcceptUdp(e)
    PROVE  Quiet \/ Drops \/ Connects
<1> USE DEF OwnInv
<1>1. EventsStay({})
  BY TodoTaken DEF AcceptUdp
<1>2. /\ flow' = AddConn(NextFlow).flow
      /\ \/ UNCHANGED <<connVars, kernVars, userVars>>
         \/ \E s \in Waiting(Udp) :
              /\ AddConn(NextFlow).ok
              /\ \/ /\ CloseFds({}, {s}, sock)
                    /\ UNCHANGED <<connVars, asked>>
                 \/ /\ slots' = [AddedSlot(AddConn(NextFlow).flow, 0, s) EXCEPT
                                   ![SlotOf(AddConn(NextFlow).flow)].r = Append(@, s)]
                    /\ curconn' = curconn + 1
                    /\ sock' = [Queued(s, "open") EXCEPT ![s].rx = 0]
                    /\ asked' = [asked EXCEPT ![s] = AddConn(NextFlow).flow]
                    /\ UNCHANGED <<fdtab, ep, ready>>
              /\ UNCHANGED <<bye, given>>
  BY DEF AcceptUdp
<1>3. flow' \in Nat /\ flow <= flow' /\ AddConn(NextFlow).flow \in Nat
  BY <1>2, FlowGrows
<1>4. CASE UNCHANGED <<connVars, kernVars, userVars>>
  BY <1>1, <1>4 DEF Quiet, userVars
<1>5. ASSUME NEW s \in Waiting(Udp), CloseFds({}, {s}, sock), UNCHANGED <<connVars, asked>>,
             given' = given
      PROVE  Drops
  <2>1. s \in Peer /\ sock[s].st \in {"new", "queued"}
    BY DEF Waiting, Peer
  <2> QED BY <1>1, <1>3, <1>5, <2>1, DropKind
<1>6. ASSUME NEW s \in Waiting(Udp), AddConn(NextFlow).ok,
             slots' = [AddedSlot(AddConn(NextFlow).flow, 0, s) EXCEPT
                         ![SlotOf(AddConn(NextFlow).flow)].r = Append(@, s)],
             curconn' = curconn + 1,
             sock' = [Queued(s, "open") EXCEPT ![s].rx = 0],
             asked' = [asked EXCEPT ![s] = AddConn(NextFlow).flow],
             UNCHANGED <<fdtab, ep, ready>>, given' = given
      PROVE  Connects
  <2>1. s \in Udp /\ s \in Peer /\ sock[s].st \in {"new", "queued"}
    BY DEF Waiting, Peer
  <2>2. PICK f \in Nat : f = AddConn(NextFlow).flow
    BY <1>3
  <2>3. Added(f, 0, s) /\ slots'[SlotOf(f)].r = Append(<<>>, s)
    BY <1>2, <1>6, <2>1, <2>2, AddUdpEffect
  <2>4. sock'[s].got = sock[s].got
    <3>1. sock \in [Peer -> SockType]
      BY DEF TypeInv, TablesOK
    <3> QED BY <1>6, <2>1, <3>1 DEF Queued, SockType
  <2>5. asked' \in {asked, [asked EXCEPT ![s] = f]}
    BY <1>6, <2>2
  <2> QED BY <1>1, <1>6, <2>1, <2>3, <2>4, <2>5 DEF Connects
<1> QED BY <1>2, <1>4, <1>5, <1>6

\* closeconn, for the connections of F
LEMMA CloseKind ==
    ASSUME TypeInv, OwnInv, NEW F \in SUBSET Nat, CloseConn(F, slots, sock), flow' = flow,
           UNCHANGED <<asked, given>>, EventsStay(F)
    PROVE  Closes
<1>1. Reduced(Gone(F)) /\ ClosedOf(Gone(F), slots, sock)
  BY CloseCore DEF OwnInv
<1> QED BY <1>1 DEF Closes

\* What ::send has done to the socket of a connection.
LEMMA PushedEffect ==
    ASSUME TypeInv, OwnInv, NEW i \in Live, NEW out \in Seq(Unit), NEW done, done \in BOOLEAN, NEW sk,
           sk = Pushed(slots[i], out, done)
    PROVE  /\ SameSocks(sk) /\ peerOf[i] \in Peer
           /\ \A x \in Peer \ {peerOf[i]} : sk[x] = sock[x]
           /\ sk[peerOf[i]].got = sock[peerOf[i]].got \o out
           /\ ~done /\ ~slots[i].udp => sk[peerOf[i]].full
           /\ sk[peerOf[i]].rx = sock[peerOf[i]].rx /\ sk[peerOf[i]].peer = sock[peerOf[i]].peer
<1> DEFINE s == peerOf[i]
           u == ~slots[i].udp /\ ~done
           k == [sock[s] EXCEPT !.got = @ \o out, !.full = u]
<1>1. sock \in [Peer -> SockType] /\ s \in Peer /\ s = Target(slots[i]) /\ s # NoSock
  BY LiveType, PeerAssumption, ZenonT(60) DEF TypeInv, TablesOK, peerOf, OwnInv, Tables, Placed
<1>2. sk = [sock EXCEPT ![s].got = @ \o out, ![s].full = u]
  BY <1>1 DEF Pushed
<1>3. u \in BOOLEAN /\ (~done /\ ~slots[i].udp => u)
  OBVIOUS
<1>4. sock[s].got \o out \in Seq(Unit)
  <2> DEFINE a == sock[s].got
             b == out
  <2>1. a \in Seq(Unit) /\ b \in Seq(Unit)
    BY <1>1 DEF SockType
  <2> HIDE DEF a, b
  <2>2. a \o b \in Seq(Unit)
    BY <2>1, ConcatProperties
  <2> QED BY <2>2 DEF a, b
<1> HIDE DEF s, u
<1>5. sk = [sock EXCEPT ![s] = k]
  BY <1>1, <1>2
<1>6. /\ k \in SockType /\ k.got = sock[s].got \o out /\ k.full = u
      /\ k.rx = sock[s].rx /\ k.peer = sock[s].peer /\ k.st = sock[s].st
  BY <1>1, <1>3, <1>4 DEF SockType
<1> HIDE DEF k
<1>7. SameSocks(sk) /\ sk[s] = k /\ \A x \in Peer \ {s} : sk[x] = sock[x]
  BY <1>1, <1>5, <1>6 DEF SameSocks
<1> QED BY <1>1, <1>3, <1>6, <1>7 DEF s

\* What send and sendfromcache have done to a connection that stays.
LEMMA SentEffect ==
    ASSUME TypeInv, OwnInv, NEW i \in Live, ~slots[i].udp, NEW all, NEW o, SentOf(o, all), ~o.broken,
           CachesAre(slots', i, slots[i].r, o.w), sock' = Pushed(slots[i], o.out, o.w = <<>>),
           \/ UNCHANGED <<ep, ready>>
           \/ \E out \in BOOLEAN, sk \in {sock, sock'} :
                 Watch(peerOf[i], slots[i].fd, slots[i].flow, out, sk),
           UNCHANGED <<curconn, fdtab, flow, asked>>
    PROVE  Sent(i, all, o)
<1> DEFINE s == peerOf[i]
<1>1. o.out \in Seq(Unit) /\ o.w \in Seq(Unit)
  BY DEF SentOf
<1>2. /\ SameSocks(sock') /\ s \in Peer
      /\ \A x \in Peer \ {s} : sock'[x] = sock[x]
      /\ sock'[s].got = sock[s].got \o o.out
      /\ o.w # <<>> => sock'[s].full
      /\ sock'[s].rx = sock[s].rx /\ sock'[s].peer = sock[s].peer
  <2> DEFINE done == (o.w = <<>>)
             out == o.out
             k == Pushed(slots[i], out, done)
  <2>1. out \in Seq(Unit) /\ done \in BOOLEAN
    BY DEF SentOf
  <2>2. k = Pushed(slots[i], out, done) /\ sock' = k
    OBVIOUS
  <2> HIDE DEF k, done, out
  <2>3. /\ SameSocks(k) /\ peerOf[i] \in Peer
        /\ \A x \in Peer \ {peerOf[i]} : k[x] = sock[x]
        /\ k[peerOf[i]].got = sock[peerOf[i]].got \o out
        /\ ~done /\ ~slots[i].udp => k[peerOf[i]].full
        /\ k[peerOf[i]].rx = sock[peerOf[i]].rx /\ k[peerOf[i]].peer = sock[peerOf[i]].peer
    BY <2>1, <2>2, PushedEffect
  <2>4. /\ SameSocks(sock')
        /\ \A x \in Peer \ {peerOf[i]} : sock'[x] = sock[x]
        /\ sock'[peerOf[i]].got = sock[peerOf[i]].got \o o.out
        /\ o.w # <<>> /\ ~slots[i].udp => sock'[peerOf[i]].full
        /\ sock'[peerOf[i]].rx = sock[peerOf[i]].rx /\ sock'[peerOf[i]].peer = sock[peerOf[i]].peer
    BY <2>2, <2>3 DEF done, out
  <2> QED BY <2>3, <2>4
<1>3. Reduced({})
  BY <1>2, CacheStep DEF OwnInv
<1>4. /\ \A x \in Peer \ {s} : ep'[x] = ep[x]
      /\ ready \subseteq ready'
  <2>1. CASE UNCHANGED <<ep, ready>>
    BY <2>1
  <2>2. CASE \E out \in BOOLEAN, sk \in {sock, sock'} :
                Watch(s, slots[i].fd, slots[i].flow, out, sk)
    <3>1. PICK out \in BOOLEAN, sk \in {sock, sock'} : Watch(s, slots[i].fd, slots[i].flow, out, sk)
      BY <2>2
    <3> DEFINE d == slots[i].fd
               f == slots[i].flow
    <3>2. d \in Nat /\ f \in Nat /\ Watch(s, d, f, out, sk) /\ s \in Peer
      BY <1>2, <3>1 DEF TypeInv, TablesOK, ConnType, Live
    <3> HIDE DEF d, f, s
    <3> QED BY <3>2, WatchEffect
  <2> QED BY <2>1, <2>2
<1>5. sock'[s].st = sock[s].st
  BY <1>2 DEF SameSocks
<1>6. \A x \in Peer : Readable(sock'[x]) => Readable(sock[x])
  BY <1>2 DEF Readable
<1> QED BY <1>2, <1>3, <1>4, <1>5, <1>6 DEF Sent

\* EPOLLOUT
LEMMA WritableKind ==
    ASSUME TypeInv, OwnInv, NEW e \in Events, Writable(e)
    PROVE  Quiet \/ Closes \/ Writes
<1>1. /\ e \in EventType /\ e.flow \in Nat
      /\ [e EXCEPT !.ev = {"in"}].kind = e.kind /\ [e EXCEPT !.ev = {"in"}].flow = e.flow
      /\ [e EXCEPT !.ev = {"in"}].ev = {"in"} /\ [e EXCEPT !.ev = {"in"}] # None
  <2>1. e \in EventType
    BY EventTypes
  <2>2. [e EXCEPT !.ev = {"in"}] \in EventType
    BY <2>1 DEF EventType
  <2>3. [e EXCEPT !.ev = {"in"}] # None
    BY <2>2, EventTypes
  <2> QED BY <2>1, <2>3 DEF EventType
<1>2. Taken(e) /\ e.kind = "conn" /\ flow' = flow /\ UNCHANGED userVars /\ "out" \in e.ev
      /\ cur' = IF "in" \in e.ev THEN [e EXCEPT !.ev = {"in"}] ELSE None
  BY DEF Writable
<1>3. UNCHANGED <<asked, given>>
  BY <1>2 DEF userVars
<1>4. /\ \A x \in todo : x = e \/ x \in todo'
      /\ cur' # None /\ cur'.kind = "conn" => cur' \in todo'
      /\ EventsStay({e.flow})
  BY <1>2, TodoTaken DEF OwnInv
<1>5. InKept({}) /\ OutKept({e.flow})
  <2>1. OutKept({e.flow})
    BY <1>4 DEF EventsStay
  <2>2. e.ev # {"out"} => "in" \in e.ev
    BY <1>1, <1>2 DEF EventType
  <2>3. InKept({})
    BY <1>1, <1>2, <1>4, <2>2 DEF InKept
  <2> QED BY <2>1, <2>3
<1>6. CASE ~Found(e.flow)
  <2>1. UNCHANGED <<connVars, kernVars>>
    BY <1>6 DEF Writable
  <2>2. EventsStay({})
    BY <1>4, <1>6 DEF EventsStay, InKept, OutKept
  <2> QED BY <1>3, <2>1, <2>2 DEF Quiet
<1>7. CASE Found(e.flow)
  <2>1. PICK i \in Live : /\ i = SlotOf(e.flow) /\ slots[i].flow = e.flow
                          /\ slots[i].w \in Seq(Unit) /\ slots[i].r \in Seq(Peer)
                          /\ peerOf[i] \in Peer
                          /\ ~slots[i].udp /\ slots[i].fd = e.fd
                          /\ peerOf[i] = SockAt(e.fd)
    BY <1>2, <1>7, EventConn
  <2>2. PICK o \in SendFromCache(slots[i]) :
           \/ CloseConn({e.flow}, slots, sock)
           \/ /\ ~o.broken
              /\ slots' = [Touched(e.flow) EXCEPT ![SlotOf(e.flow)].w = o.w]
              /\ sock' = Pushed(slots[i], o.out, o.w = <<>>)
              /\ IF o.w = <<>>
                 THEN Watch(SockAt(e.fd), e.fd, e.flow, FALSE, Pushed(slots[i], o.out, o.w = <<>>))
                 ELSE UNCHANGED <<ep, ready>>
              /\ UNCHANGED <<curconn, fdtab>>
    BY <1>7, <2>1 DEF Writable
  <2>3. CASE CloseConn({e.flow}, slots, sock)
    <3> DEFINE F == {e.flow}
    <3>1. F \in SUBSET Nat /\ CloseConn(F, slots, sock) /\ EventsStay(F)
      BY <1>1, <1>4, <2>3
    <3> HIDE DEF F
    <3>2. Closes
      BY <1>2, <1>3, <3>1, CloseKind
    <3> QED BY <3>2
  <2>4. CASE /\ ~o.broken
             /\ slots' = [Touched(e.flow) EXCEPT ![SlotOf(e.flow)].w = o.w]
             /\ sock' = Pushed(slots[i], o.out, o.w = <<>>)
             /\ IF o.w = <<>>
                THEN Watch(SockAt(e.fd), e.fd, e.flow, FALSE, Pushed(slots[i], o.out, o.w = <<>>))
                ELSE UNCHANGED <<ep, ready>>
             /\ UNCHANGED <<curconn, fdtab>>
    <3>1. SentOf(o, slots[i].w) /\ (slots[i].w = <<>> => o.w = <<>>)
      BY <2>1, <2>4, FromCache
    <3>2. o.w \in Seq(Unit) /\ o.out \in Seq(Unit)
      BY <3>1 DEF SentOf
    <3>3. CachesAre(slots', i, slots[i].r, o.w)
      BY <2>1, <2>4, <3>2, CacheSet
    <3>4. \/ UNCHANGED <<ep, ready>>
          \/ \E out \in BOOLEAN, sk \in {sock, sock'} :
                Watch(peerOf[i], slots[i].fd, slots[i].flow, out, sk)
      BY <2>1, <2>4
    <3>5. Sent(i, slots[i].w, o)
      BY <1>2, <1>3, <2>1, <2>4, <3>1, <3>3, <3>4, SentEffect
    <3>6. o.w # <<>> => slots[i].w # <<>> /\ ep' = ep
      BY <2>4, <3>1
    <3> QED BY <1>3, <1>5, <2>1, <3>5, <3>6 DEF Writes
  <2> QED BY <2>2, <2>3, <2>4
<1> QED BY <1>6, <1>7

\* EPOLLIN: what recv returns
LEMMA RecvKind ==
    ASSUME TypeInv, OwnInv, NEW e \in Events, Recv(e)
    PROVE  Quiet \/ Closes \/ Reads
<1>1. /\ flow' = flow /\ given' = given /\ e.kind = "conn" /\ e \in EventType /\ e.flow \in Nat
      /\ e.ev = {"in"} /\ Taken(e)
  <2>1. e \in EventType
    BY EventTypes
  <2>2. Taken(e)
    BY DEF Recv, Finish
  <2> QED BY <2>1, <2>2 DEF Recv, EventType
<1>2. /\ \A x \in todo : x = e \/ x \in todo'
      /\ cur' # None /\ cur'.kind = "conn" => cur' \in todo'
      /\ EventsStay({e.flow})
  BY <1>1, TodoTaken DEF OwnInv
<1>3. OutKept({}) /\ InKept({e.flow})
  BY <1>1, <1>2 DEF EventsStay, OutKept, InKept
<1>4. CASE ~Found(e.flow)
  <2>1. UNCHANGED <<connVars, kernVars, asked>>
    BY <1>4 DEF Recv
  <2>2. EventsStay({})
    BY <1>3, <1>4 DEF EventsStay, InKept
  <2> QED BY <1>1, <2>1, <2>2 DEF Quiet
<1>5. CASE Found(e.flow)
  <2>1. PICK i \in Live : /\ i = SlotOf(e.flow) /\ slots[i].flow = e.flow
                          /\ slots[i].w \in Seq(Unit) /\ slots[i].r \in Seq(Peer)
                          /\ peerOf[i] \in Peer
                          /\ ~slots[i].udp /\ slots[i].fd = e.fd
                          /\ peerOf[i] = SockAt(e.fd)
    BY <1>1, <1>5, EventConn
  <2> DEFINE s == peerOf[i]
  <2>2. \/ CloseConn({e.flow}, slots, sock) /\ UNCHANGED asked
        \/ recv(s).again /\ slots' = Touched(e.flow) /\ UNCHANGED <<curconn, kernVars, asked>>
        \/ \E n \in recv(s).len :
             LET r == slots[i].r \o [j \in 1 .. n |-> s]
             IN  /\ slots' = [Touched(e.flow) EXCEPT ![SlotOf(e.flow)].r = r]
                 /\ sock' = [sock EXCEPT ![s].rx = @ - n]
                 /\ asked' = [asked EXCEPT ![s] = e.flow]
                 /\ cur' = [e EXCEPT !.len = Len(r)]
                 /\ UNCHANGED <<curconn, fdtab, ep, ready>>
    BY <1>5, <2>1, ZenonT(60) DEF Recv
  <2>3. s \in Peer /\ s # NoSock
    BY <2>1, PeerAssumption
  <2> HIDE DEF s
  <2>4. CASE CloseConn({e.flow}, slots, sock) /\ UNCHANGED asked
    <3> DEFINE F == {e.flow}
    <3>1. F \in SUBSET Nat /\ CloseConn(F, slots, sock) /\ EventsStay(F)
      BY <1>1, <1>2, <2>4
    <3> HIDE DEF F
    <3>2. Closes
      BY <1>1, <2>4, <3>1, CloseKind
    <3> QED BY <3>2
  <2>5. CASE recv(s).again /\ slots' = Touched(e.flow) /\ UNCHANGED <<curconn, kernVars, asked>>
    <3>1. CachesAre(slots', i, slots[i].r, slots[i].w)
      BY <2>1, <2>5, CacheSet
    <3>2. SameSocks(sock') /\ UNCHANGED <<curconn, fdtab, flow, ep, ready, sock>>
      BY <1>1, <2>5 DEF kernVars, SameSocks, TypeInv, TablesOK
    <3>3. Reduced({})
      BY <2>1, <3>1, <3>2, CacheStep DEF OwnInv
    <3>4. ~Readable(sock[peerOf[i]])
      BY <2>3, <2>5 DEF recv, s
    <3>5. \A x \in Peer : SameSock(sock[x], sock'[x]) /\ (Readable(sock'[x]) => Readable(sock[x]))
      BY <3>2 DEF SameSock
    <3>6. \A k \in 1 .. Len(slots[i].r) : \/ slots[i].r[k] = peerOf[i]
                                          \/ \E m \in 1 .. Len(slots[i].r) : slots[i].r[k] = slots[i].r[m]
      OBVIOUS
    <3>7. InKept({slots[i].flow})
      BY <1>3, <2>1
    <3> QED BY <1>1, <1>3, <2>1, <2>5, <3>1, <3>2, <3>3, <3>4, <3>5, <3>6, <3>7 DEF Reads
  <2>6. ASSUME NEW n \in recv(s).len, NEW r, r = slots[i].r \o [j \in 1 .. n |-> s],
               slots' = [Touched(e.flow) EXCEPT ![SlotOf(e.flow)].r = r],
               sock' = [sock EXCEPT ![s].rx = @ - n],
               asked' = [asked EXCEPT ![s] = e.flow],
               cur' = [e EXCEPT !.len = Len(r)],
               UNCHANGED <<curconn, fdtab, ep, ready>>
        PROVE  Reads
    <3> DEFINE q == [j \in 1 .. n |-> s]
               p == slots[i].r
    <3>1. /\ n \in 1 .. sock[s].rx /\ sock[s].peer # "rst"
          /\ SameSocks(sock') /\ \A x \in Peer \ {s} : sock'[x] = sock[x]
          /\ sock'[s].got = sock[s].got /\ sock'[s].full = sock[s].full
          /\ q \in Seq(Peer) /\ Len(q) = n
      <4> DEFINE sent == [sock EXCEPT ![s].rx = @ - n]
      <4>1. /\ n \in 1 .. sock[s].rx /\ sock[s].peer # "rst"
            /\ SameSocks(sent) /\ \A x \in Peer \ {s} : sent[x] = sock[x]
            /\ sent[s].got = sock[s].got /\ sent[s].full = sock[s].full
            /\ q \in Seq(Peer) /\ Len(q) = n
        BY <2>3, Received
      <4> QED BY <2>6, <4>1
    <3>2. n \in Nat /\ sock[s].rx \in Nat /\ \A j \in 1 .. n : q[j] = s
      <4>1. sock[s].rx \in Nat
        BY <2>3 DEF TypeInv, TablesOK, SockType
      <4> QED BY <3>1, <4>1
    <3>3. p \in Seq(Peer) /\ r = p \o q
      BY <2>1, <2>6
    <3> HIDE DEF p, q
    <3>4. r \in Seq(Peer) /\ Len(r) = Len(p) + n /\ Len(p) \in Nat
          /\ \A k \in 1 .. Len(p) + n : r[k] = IF k <= Len(p) THEN p[k] ELSE q[k - Len(p)]
      BY <3>1, <3>3, ConcatProperties, LenProperties
    <3>5. ASSUME NEW k \in 1 .. Len(r) PROVE r[k] = s \/ \E m \in 1 .. Len(p) : r[k] = p[m]
      <4>1. CASE k <= Len(p)
        BY <3>4, <4>1
      <4>2. CASE ~(k <= Len(p))
        <5>1. k - Len(p) \in 1 .. n
          BY <3>2, <3>4, <4>2
        <5> QED BY <3>2, <3>4, <4>2, <5>1
      <4> QED BY <4>1, <4>2
    <3>6. /\ cur'.kind = e.kind /\ cur'.flow = e.flow /\ cur'.ev = e.ev /\ cur' # None
      <4> DEFINE x == [e EXCEPT !.len = Len(r)]
      <4>1. Len(r) \in Nat
        BY <3>2, <3>4
      <4>2. x \in EventType /\ x.kind = e.kind /\ x.flow = e.flow /\ x.ev = e.ev
        BY <1>1, <4>1 DEF EventType
      <4> HIDE DEF x
      <4>3. cur' = x /\ x # None
        BY <2>6, <4>2, EventTypes DEF x
      <4> QED BY <4>2, <4>3
    <3>7. InKept({})
      <4>1. cur' \in todo' /\ cur'.flow = e.flow /\ cur'.ev # {"out"}
        BY <1>1, <1>2, <3>6
      <4> QED BY <1>2, <4>1 DEF InKept
    <3>8. CachesAre(slots', i, r, slots[i].w)
      BY <2>1, <2>6, <3>4, CacheSet
    <3>9. Reduced({})
      BY <1>1, <2>1, <2>6, <3>1, <3>8, CacheStep DEF OwnInv
    <3>10. ASSUME NEW x \in Peer
           PROVE  SameSock(sock[x], sock'[x]) /\ (Readable(sock'[x]) => Readable(sock[x]))
      <4>1. CASE x # s
        BY <3>1, <4>1 DEF SameSock
      <4>2. CASE x = s
        <5>1. Readable(sock[s])
          BY <3>1, <3>2 DEF Readable
        <5> QED BY <3>1, <4>2, <5>1 DEF SameSock, SameSocks
      <4> QED BY <4>1, <4>2
    <3>11. asked' \in {asked, [asked EXCEPT ![peerOf[i]] = slots[i].flow]}
      BY <2>1, <2>6 DEF s
    <3>12. \A k \in 1 .. Len(r) : r[k] = peerOf[i] \/ \E m \in 1 .. Len(slots[i].r) : r[k] = slots[i].r[m]
      BY <3>5 DEF s, p
    <3> QED BY <1>1, <1>3, <2>1, <2>6, <3>4, <3>7, <3>8, <3>9, <3>10, <3>11, <3>12, ZenonT(60) DEF Reads
  <2> QED BY <2>2, <2>4, <2>5, <2>6
<1> QED BY <1>4, <1>5

\* CB_RECVDATA returns.
LEMMA RecvReturnsKind ==
    ASSUME TypeInv, OwnInv, RecvReturns
    PROVE  Quiet \/ Closes \/ Reads
<1>1. pc = "recvdata" /\ flow' = flow /\ UNCHANGED <<asked, given>>
  BY DEF RecvReturns, userVars
<1>2. cur \in todo /\ cur # None /\ cur \in EventType /\ cur.kind = "conn" /\ cur \notin batch
      /\ cur \in Events /\ cur.flow \in Nat /\ cur.len \in Nat
  <2>1. cur \in todo /\ cur \notin batch
    BY <1>1 DEF OwnInv, EventsOK
  <2>2. cur \in EventType /\ cur.kind = "conn"
    BY <2>1, EventTypes
  <2> QED BY <2>1, <2>2, EventTypes DEF Events, EventType
<1>3. CASE CloseConn({cur.flow}, slots, sock) /\ Finish(cur)
  <2> DEFINE F == {cur.flow}
  <2>1. EventsStay({cur.flow})
    BY <1>2, <1>3, TodoTaken DEF Finish, OwnInv
  <2>2. F \in SUBSET Nat /\ CloseConn(F, slots, sock) /\ EventsStay(F)
    BY <1>2, <1>3, <2>1
  <2> HIDE DEF F
  <2>3. Closes
    BY <1>1, <2>2, CloseKind
  <2> QED BY <2>3
<1>4. ASSUME NEW n \in 0 .. cur.len,
             slots' = [slots EXCEPT ![SlotOf(cur.flow)].r = Drop(@, n)],
             cur' = [cur EXCEPT !.len = 0], UNCHANGED <<curconn, kernVars, batch>>
      PROVE  Quiet \/ Reads
  <2>1. EventsStay({})
    <3> DEFINE x == [cur EXCEPT !.len = 0]
    <3>1. x \in EventType /\ x.kind = cur.kind /\ x.flow = cur.flow /\ x.ev = cur.ev
      BY <1>2 DEF EventType
    <3>2. x # None
      BY <3>1, EventTypes
    <3> HIDE DEF x
    <3>3. cur' = x
      BY <1>4 DEF x
    <3>4. x \in todo' /\ \A y \in todo : y = cur \/ y \in todo'
      <4>1. x \in todo'
        BY <1>2, <3>1, <3>2, <3>3 DEF todo
      <4>2. ASSUME NEW y \in todo, y # cur PROVE y \in todo'
        <5>1. y \in batch /\ y # None /\ y.kind = "conn"
          BY <4>2, EventTypes DEF todo
        <5>2. y \in batch'
          BY <1>4, <5>1
        <5> QED BY <5>1, <5>2 DEF todo
      <4> QED BY <4>1, <4>2
    <3> QED BY <3>1, <3>4 DEF EventsStay, InKept, OutKept
  <2>2. PICK f \in Nat : f = cur.flow
    BY <1>2
  <2>3. n \in Nat /\ slots' = [slots EXCEPT ![SlotOf(f)].r = Drop(@, n)]
    BY <1>2, <1>4, <2>2
  <2>4. CASE slots' = slots
    <3>1. UNCHANGED <<connVars, kernVars>>
      BY <1>4, <2>4 DEF connVars
    <3> QED BY <1>1, <2>1, <3>1 DEF Quiet
  <2>5. ASSUME NEW i \in Live, Drop(slots[i].r, n) \in Seq(Peer),
               CachesAre(slots', i, Drop(slots[i].r, n), slots[i].w)
        PROVE  Reads
    <3> DEFINE p == Drop(slots[i].r, n)
               q == slots[i].r
    <3>1. SameSocks(sock') /\ UNCHANGED <<curconn, fdtab, flow, ep, ready, sock>>
      BY <1>1, <1>4 DEF kernVars, SameSocks, TypeInv, TablesOK
    <3>2. Reduced({})
      BY <2>5, <3>1, CacheStep DEF OwnInv
    <3>3. \A x \in Peer : SameSock(sock[x], sock'[x]) /\ (Readable(sock'[x]) => Readable(sock[x]))
      BY <3>1 DEF SameSock
    <3>4. q \in Seq(Peer)
      BY LiveType DEF TypeInv, TablesOK, ConnType
    <3>5. ASSUME NEW k \in 1 .. Len(p) PROVE \E m \in 1 .. Len(q) : p[k] = q[m]
      <4>1. p = SubSeq(q, n + 1, Len(q))
        BY DEF Drop
      <4> HIDE DEF p, q
      <4>2. /\ Len(q) \in Nat /\ Len(p) = (IF n <= Len(q) THEN Len(q) - n ELSE 0)
            /\ \A j \in 1 .. Len(q) - n : p[j] = q[j + n]
        BY <2>3, <3>4, <4>1, DropElements, LenProperties
      <4>3. k \in 1 .. Len(q) - n /\ k + n \in 1 .. Len(q)
        BY <2>3, <3>5, <4>2
      <4> QED BY <4>2, <4>3
    <3>6. \A k \in 1 .. Len(p) : p[k] = peerOf[i] \/ \E m \in 1 .. Len(slots[i].r) : p[k] = slots[i].r[m]
      BY <3>5
    <3>7. p \in Seq(Peer) /\ CachesAre(slots', i, p, slots[i].w)
      BY <2>5
    <3> HIDE DEF p
    <3>8. asked' \in {asked, [asked EXCEPT ![peerOf[i]] = slots[i].flow]}
      BY <1>1
    <3>9. InKept({}) /\ OutKept({})
      BY <2>1 DEF EventsStay
    <3> QED BY <1>1, <3>1, <3>2, <3>3, <3>6, <3>7, <3>8, <3>9 DEF Reads
  <2>6. FreeClean
    BY DEF OwnInv, Tables
  <2> QED BY <2>3, <2>4, <2>5, <2>6, DropRead
<1> QED BY <1>3, <1>4 DEF RecvReturns

\* The end of poll: the connections that expired are closed, or none is.
LEMMA CheckExpireKind ==
    ASSUME TypeInv, OwnInv, CheckExpire
    PROVE  Quiet \/ Closes
<1>1. flow' = flow /\ UNCHANGED <<batch, cur, asked, given>>
  BY DEF CheckExpire
<1>2. \A F : EventsStay(F)
  BY <1>1, TodoSame
<1>3. CASE UNCHANGED <<connVars, kernVars>>
  BY <1>1, <1>2, <1>3 DEF Quiet
<1>4. CASE CloseConn(Expired, slots, sock)
  <2>1. Expired \in SUBSET Nat
    BY DEF Expired, TypeInv, TablesOK, ConnType
  <2> QED BY <1>1, <1>2, <1>4, <2>1, CloseKind
<1> QED BY <1>3, <1>4 DEF CheckExpire

\* sendto with a blob of length 0
LEMMA SendCloseKind ==
    ASSUME TypeInv, OwnInv, NEW s \in Peer, SendClose(s)
    PROVE  Closes
<1>1. /\ CloseConn({asked[s]}, slots, sock) /\ flow' = flow
      /\ UNCHANGED <<asked, given>> /\ UNCHANGED <<batch, cur>>
  BY DEF SendClose, userVars, loopVars
<1> DEFINE F == {asked[s]}
<1>2. F \in SUBSET Nat /\ CloseConn(F, slots, sock)
  BY <1>1 DEF TypeInv, UserOK
<1> HIDE DEF F
<1>3. EventsStay(F)
  BY <1>1, TodoSame
<1> QED BY <1>1, <1>2, <1>3, CloseKind

\* sendto with data
LEMMA SendToKind ==
    ASSUME TypeInv, OwnInv, NEW s \in Peer, NEW n \in 1 .. MaxRsp, SendTo(s, n)
    PROVE  Quiet \/ Sends
<1>1. flow' = flow /\ UNCHANGED <<batch, cur>> /\ asked' = asked
  BY DEF SendTo, loopVars
<1>2. \A F : EventsStay(F)
  BY <1>1, TodoSame
<1>3. CASE ~Found(asked[s])
  <2>1. UNCHANGED <<connVars, kernVars, given>>
    BY <1>3 DEF SendTo
  <2> QED BY <1>1, <1>2, <2>1 DEF Quiet
<1>4. CASE Found(asked[s])
  <2> DEFINE data == Data(s, n)
  <2>1. PICK i \in Live, o \in Send(slots[SlotOf(asked[s])], data) :
          /\ i = SlotOf(asked[s]) /\ slots[i].flow = asked[s]
          /\ given' = [given EXCEPT ![s] = @ + n]
          /\ SentOf(o, slots[i].w \o data)
          /\ ~o.broken /\ o.w # <<>> => o.ret < n
          /\ CachesAre([Touched(asked[s]) EXCEPT ![i].w = o.w], i, slots[i].r, o.w)
          /\ \/ /\ ClosedOf({i}, [Touched(asked[s]) EXCEPT ![i].w = o.w],
                            Pushed(slots[i], o.out, o.w = <<>>))
                /\ Reduced({i})
             \/ /\ ~o.broken /\ ~slots[i].udp
                /\ slots' = [Touched(asked[s]) EXCEPT ![i].w = o.w]
                /\ sock' = Pushed(slots[i], o.out, o.w = <<>>)
                /\ Watch(peerOf[i], slots[i].fd, slots[i].flow, o.ret < n,
                         Pushed(slots[i], o.out, o.w = <<>>))
                /\ UNCHANGED <<curconn, fdtab>>
    BY <1>4, SendToFound, ZenonT(60) DEF Data
  <2> HIDE DEF data
  <2>2. CASE /\ ~o.broken /\ ~slots[i].udp
             /\ slots' = [Touched(asked[s]) EXCEPT ![i].w = o.w]
             /\ sock' = Pushed(slots[i], o.out, o.w = <<>>)
             /\ Watch(peerOf[i], slots[i].fd, slots[i].flow, o.ret < n,
                      Pushed(slots[i], o.out, o.w = <<>>))
             /\ UNCHANGED <<curconn, fdtab>>
    <3> DEFINE out == o.ret < n
               all == slots[i].w \o data
               x == peerOf[i]
               d == slots[i].fd
               f == slots[i].flow
    <3>1. /\ out \in BOOLEAN /\ Watch(peerOf[i], slots[i].fd, slots[i].flow, out, sock')
          /\ Watch(x, d, f, out, sock')
      BY <2>2
    <3>2. CachesAre(slots', i, slots[i].r, o.w) /\ SentOf(o, all)
      BY <2>1, <2>2
    <3>3. x \in Peer /\ d \in Nat /\ f \in Nat
      BY DEF TypeInv, TablesOK, ConnType, Live, OwnInv, Tables, Placed
    <3>4. o.w # <<>> => out
      BY <2>1, <2>2
    <3> HIDE DEF out, all, x, d, f
    <3>5. Sent(i, all, o)
      BY <1>1, <2>2, <3>1, <3>2, SentEffect
    <3>6. ep'[x].out = out
      BY <3>1, <3>3, WatchEffect
    <3>7. o.w # <<>> => ep'[peerOf[i]].out
      BY <3>4, <3>6 DEF x
    <3> QED BY <1>1, <1>2, <1>4, <2>1, <3>2, <3>5, <3>7 DEF Sends, SentNow, all, data
  <2>3. CASE /\ ClosedOf({i}, [Touched(asked[s]) EXCEPT ![i].w = o.w],
                         Pushed(slots[i], o.out, o.w = <<>>))
             /\ Reduced({i})
    BY <1>1, <1>2, <1>4, <2>1, <2>3 DEF Sends, SentNow, data
  <2> QED BY <2>1, <2>2, <2>3
<1> QED BY <1>3, <1>4

\* connect to a backend
LEMMA ConnectToKind ==
    ASSUME TypeInv, OwnInv, NoWrap, ~LateFailure, NEW s \in Back, Connect(s)
    PROVE  Drops \/ Connects
<1> DEFINE opened == [sock EXCEPT ![s].st = "open", ![s].full = TRUE]
<1>1. /\ sock[s].st \in {"new", "queued"} /\ FreeFd # {} /\ flow' = AddConn(NextFlow).flow
      /\ UNCHANGED <<batch, cur>> /\ given' = given
  BY DEF Connect, loopVars
<1>2. flow' \in Nat /\ flow <= flow' /\ s \in Peer /\ s \in Tcp \cup Back
  BY <1>1, FlowGrows DEF Peer
<1>3. EventsStay({})
  BY <1>1, TodoSame
<1>4. CASE CloseFds({}, {s}, sock) /\ UNCHANGED <<connVars, asked>>
  BY <1>1, <1>2, <1>3, <1>4, DropKind
<1>5. CASE /\ AddConn(NextFlow).ok
           /\ slots' = AddedSlot(AddConn(NextFlow).flow, Min(FreeFd), s)
           /\ curconn' = curconn + 1
           /\ sock' = opened
           /\ fdtab' = [fdtab EXCEPT ![Min(FreeFd)] = s]
           /\ Watch(s, Min(FreeFd), AddConn(NextFlow).flow, FALSE, opened)
           /\ asked' = [asked EXCEPT ![s] = AddConn(NextFlow).flow]
  <2> DEFINE k == [sock[s] EXCEPT !.st = "open", !.full = TRUE]
             sk == opened
  <2>1. sock \in [Peer -> SockType]
    BY DEF TypeInv, TablesOK
  <2>2. k \in SockType /\ k.st = "open" /\ k.got = sock[s].got /\ sock' = [sock EXCEPT ![s] = k]
    <3>1. k \in SockType /\ k.st = "open" /\ k.got = sock[s].got
      BY <1>2, <2>1 DEF SockType
    <3>2. sock' = [sock EXCEPT ![s] = k]
      BY <1>2, <1>5, <2>1
    <3> QED BY <3>1, <3>2
  <2>3. Watch(s, Min(FreeFd), AddConn(NextFlow).flow, FALSE, sk) /\ sock' = sk
    BY <1>5
  <2> HIDE DEF k, sk, opened
  <2>4. sk[s] = k
    BY <1>2, <2>1, <2>2, <2>3
  <2>5. asked' \in {asked, [asked EXCEPT ![s] = AddConn(NextFlow).flow]}
    BY <1>5
  <2> QED BY <1>1, <1>2, <1>3, <1>5, <2>2, <2>3, <2>4, <2>5, ConnectKind
<1> HIDE DEF opened
<1>6. \/ CloseFds({}, {s}, sock) /\ UNCHANGED <<connVars, asked>>
      \/ /\ AddConn(NextFlow).ok
         /\ slots' = AddedSlot(AddConn(NextFlow).flow, Min(FreeFd), s)
         /\ curconn' = curconn + 1
         /\ sock' = opened
         /\ fdtab' = [fdtab EXCEPT ![Min(FreeFd)] = s]
         /\ Watch(s, Min(FreeFd), AddConn(NextFlow).flow, FALSE, opened)
         /\ asked' = [asked EXCEPT ![s] = AddConn(NextFlow).flow]
  BY DEF Connect, opened
<1> QED BY <1>4, <1>5, <1>6

\* An event with neither EPOLLIN nor EPOLLOUT.
LEMMA AbnormalKind ==
    ASSUME TypeInv, OwnInv, NEW e \in Events, Abnormal(e)
    PROVE  Closes
<1>1. /\ CloseConn({e.flow}, slots, sock) /\ flow' = flow /\ UNCHANGED <<asked, given>> /\ Taken(e)
  BY DEF Abnormal, Finish
<1>2. e.flow \in Nat
  <2>1. e \in EventType
    BY EventTypes
  <2> QED BY <2>1 DEF EventType
<1>3. EventsStay({e.flow})
  BY <1>1, TodoTaken DEF OwnInv
<1> DEFINE F == {e.flow}
<1>4. F \in SUBSET Nat /\ CloseConn(F, slots, sock) /\ EventsStay(F)
  BY <1>1, <1>2, <1>3
<1> HIDE DEF F
<1> QED BY <1>1, <1>4, CloseKind

\* The peers, and time.
LEMMA WorldKind ==
    ASSUME TypeInv, OwnInv, World
    PROVE  Reads \/ Moves
<1>1. CASE ~\E i \in Slot : Ages(i)
  <2>1. PICK s \in Peer, k \in SockType, wake \in BOOLEAN :
           /\ Changed(s, k, wake)
           /\ k.got = sock[s].got /\ (sock[s].st = "open" => k.st = "open")
           /\ k.st \in {"new", "queued"} => sock[s].st \in {"new", "queued"}
           /\ Readable(k) /\ sock[s].st # "new" => Readable(sock[s]) \/ wake
           /\ ~k.full /\ sock[s].full /\ ep[s].out => wake
    BY <1>1, WorldSock
  <2>2. /\ sock' = [sock EXCEPT ![s] = k] /\ ready' \subseteq ready \cup {s}
        /\ s \in ready' => ep[s].on \/ s \in ready
        /\ UNCHANGED <<connVars, fdtab, ep, flow>> /\ UNCHANGED <<batch, cur>>
    BY <2>1 DEF Changed, loopVars
  <2>3. flow' \in Nat /\ flow <= flow'
    BY <2>2 DEF TypeInv, LoopOK
  <2>4. Reduced({})
    <3>1. \A x \in Peer : (x \in ready' => ep'[x].on) /\ (sock[x].st = "open" => sock'[x].st = "open")
      BY <2>1, <2>2 DEF TypeInv, TablesOK, OwnInv, Tables, NoLeak
    <3> QED BY <2>2, <2>3, <3>1, SteadyReduces DEF connVars, OwnInv
  <2>5. EventsStay({})
    BY <2>2, TodoSame
  <2> QED BY <2>1, <2>4, <2>5 DEF Moves
<1>2. ASSUME NEW i \in Slot, Ages(i) PROVE Reads
  <2> DEFINE c == [slots[i] EXCEPT !.idle = TRUE]
  <2>1. slots \in [Slot -> ConnType] /\ i \in Live
    BY <1>2 DEF Ages, Live, TypeInv, TablesOK
  <2>2. slots' = [slots EXCEPT ![i] = c]
    BY <1>2, <2>1 DEF Ages
  <2>3. /\ c \in ConnType /\ c.flow = slots[i].flow /\ c.fd = slots[i].fd /\ c.udp = slots[i].udp
        /\ c.addr = slots[i].addr /\ c.r = slots[i].r /\ c.w = slots[i].w
    BY <2>1 DEF ConnType
  <2> HIDE DEF c
  <2> DEFINE p == slots[i].r
  <2>4. CachesAre(slots', i, p, slots[i].w) /\ p \in Seq(Peer)
    BY <2>1, <2>2, <2>3, OneSlot DEF CachesAre, ConnType
  <2>5. /\ SameSocks(sock') /\ UNCHANGED <<curconn, fdtab, flow, ep, ready, sock>> /\ flow' \in Nat
        /\ UNCHANGED <<batch, cur>> /\ UNCHANGED <<asked, given>>
    BY <1>2 DEF Ages, kernVars, SameSocks, TypeInv, TablesOK, LoopOK, loopVars, userVars
  <2>6. Reduced({})
    BY <2>1, <2>4, <2>5, CacheStep DEF OwnInv
  <2>7. InKept({}) /\ OutKept({})
    BY <2>5, TodoSame DEF EventsStay
  <2>8. \A x \in Peer : SameSock(sock[x], sock'[x]) /\ (Readable(sock'[x]) => Readable(sock[x]))
    BY <2>5 DEF SameSock
  <2>9. \A k \in 1 .. Len(p) : p[k] = peerOf[i] \/ \E m \in 1 .. Len(slots[i].r) : p[k] = slots[i].r[m]
    OBVIOUS
  <2>10. asked' \in {asked, [asked EXCEPT ![peerOf[i]] = slots[i].flow]}
    BY <2>5
  <2> HIDE DEF p
  <2> QED BY <2>1, <2>4, <2>5, <2>6, <2>7, <2>8, <2>9, <2>10 DEF Reads
<1> QED BY <1>1, <1>2

\* the kinds of steps
Kinds == Quiet \/ Closes \/ Drops \/ Connects \/ Reads \/ Writes \/ Sends \/ Moves

\* Every step is of one of these kinds, or the wait for events.
LEMMA StepKinds ==
    ASSUME TypeInv, OwnInv, NoWrap, ~LateFailure, [Next]_vars
    PROVE  Wait \/ Kinds
<1>1. ASSUME Next PROVE Wait \/ Kinds
  <2>1. CASE Program
    <3>1. CASE Wait
      BY <3>1
    <3>2. CASE \E e \in Events : Accept(e)
      BY <3>2, AcceptKind DEF Kinds
    <3>3. CASE \E e \in Events : AcceptUdp(e)
      BY <3>3, AcceptUdpKind DEF Kinds
    <3>4. CASE \E e \in Events : Abnormal(e)
      BY <3>4, AbnormalKind DEF Kinds
    <3>5. CASE \E e \in Events : Writable(e)
      BY <3>5, WritableKind DEF Kinds
    <3>6. CASE \E e \in Events : Recv(e)
      BY <3>6, RecvKind DEF Kinds
    <3>7. CASE RecvReturns
      BY <3>7, RecvReturnsKind DEF Kinds
    <3>8. CASE UdpReturns
      <4>1. EventsStay({})
        BY <3>8, TodoSame DEF UdpReturns
      <4> QED BY <3>8, <4>1 DEF UdpReturns, userVars, Quiet, Kinds
    <3>9. CASE CheckExpire
      BY <3>9, CheckExpireKind DEF Kinds
    <3> QED BY <2>1, <3>1, <3>2, <3>3, <3>4, <3>5, <3>6, <3>7, <3>8, <3>9 DEF Program
  <2>2. CASE User
    <3>1. CASE \E s \in Peer : SendClose(s)
      BY <3>1, SendCloseKind DEF Kinds
    <3>2. CASE \E s \in Peer : \E n \in 1 .. MaxRsp : SendTo(s, n)
      BY <3>2, SendToKind DEF Kinds
    <3>3. CASE \E s \in Back : Connect(s)
      BY <3>3, ConnectToKind DEF Kinds
    <3> QED BY <2>2, <3>1, <3>2, <3>3 DEF User
  <2>3. CASE World
    BY <2>3, WorldKind DEF Kinds
  <2> QED BY <1>1, <2>1, <2>2, <2>3 DEF Next
<1>2. ASSUME UNCHANGED vars PROVE Kinds
  <2>1. EventsStay({})
    BY <1>2, TodoSame DEF vars, loopVars
  <2> QED BY <1>2, <2>1 DEF vars, userVars, Quiet, Kinds
<1> QED BY <1>1, <1>2

-----------------------------------------------------------------------------
(* What is received                                                        *)

\* The slots stay, and the descriptors.
LEMMA SameSlots ==
    ASSUME slots' = slots, fdtab' = fdtab
    PROVE  Live' = Live /\ peerOf' = peerOf
<1>1. Live' = Live
  BY DEF Live
<1>2. \A i \in Slot : peerOf'[i] = peerOf[i]
  BY DEF peerOf, Target, SockAt
<1>3. peerOf' = [i \in Slot |-> peerOf'[i]] /\ peerOf = [i \in Slot |-> peerOf[i]]
  BY DEF peerOf
<1>4. peerOf' = peerOf
  BY <1>2, <1>3
<1> QED BY <1>1, <1>4

\* No connection goes, or comes.
LEMMA NoneGone ==
    ASSUME TypeInv, TypeInv', Tables, Reduced({})
    PROVE  Live' = Live /\ \A i \in Live : peerOf'[i] = peerOf[i]
<1> DEFINE gone == {}
<1>1. Reduced(gone)
  OBVIOUS
<1> HIDE DEF gone
<1>2. Live' = Live \ gone /\ \A i \in Live \ gone : peerOf'[i] = peerOf[i]
  BY <1>1, ReducedSlots
<1> QED BY <1>2 DEF gone

\* Every step leaves what was received with its connection, and nothing else's.
LEMMA ReadStep ==
    ASSUME TypeInv, OwnInv, TypeInv', ReadOwn, Wait \/ Kinds
    PROVE  ReadOwn'
<1> USE DEF OwnInv
<1> DEFINE Own(i) == \A k \in 1 .. Len(slots'[i].r) : slots'[i].r[k] = peerOf'[i]
<1>1. \A i \in Live : slots'[i].r = slots[i].r /\ peerOf'[i] = peerOf[i] => Own(i)
  BY DEF ReadOwn
<1>2. SUFFICES \A i \in Live' : Own(i)
  BY DEF ReadOwn
<1> HIDE DEF Own
<1>3. CASE Wait \/ Quiet
  <2>1. slots' = slots /\ fdtab' = fdtab
    BY <1>3 DEF Wait, Quiet, connVars, kernVars
  <2> QED BY <1>1, <2>1, SameSlots
<1>4. CASE Closes
  <2>1. PICK F \in SUBSET Nat : Reduced(Gone(F)) /\ ClosedOf(Gone(F), slots, sock)
    BY <1>4 DEF Closes
  <2> DEFINE gone == Gone(F)
  <2>2. Reduced(gone)
    BY <2>1
  <2> HIDE DEF gone
  <2>3. Live' = Live \ gone /\ \A i \in Live \ gone : peerOf'[i] = peerOf[i]
    BY <2>2, ReducedSlots
  <2>4. \A i \in Live \ gone : slots'[i] = slots[i]
    BY <2>1, LiveType DEF ClosedOf, gone
  <2> QED BY <1>1, <2>3, <2>4
<1>5. CASE Drops
  <2>1. slots' = slots /\ fdtab' = fdtab
    BY <1>5 DEF Drops
  <2> QED BY <1>1, <2>1, SameSlots
<1>6. CASE Connects
  <2>1. PICK f \in Nat, d \in Nat, s \in Peer :
           Added(f, d, s) /\ slots'[SlotOf(f)].r \in {<<>>, Append(<<>>, s)}
    BY <1>6 DEF Connects
  <2>2. /\ Live' = Live \cup {SlotOf(f)} /\ peerOf'[SlotOf(f)] = s
        /\ \A i \in Live : slots'[i] = slots[i] /\ peerOf'[i] = peerOf[i]
    BY <2>1, AddedSlots
  <2>3. Own(SlotOf(f))
    <3>1. /\ Len(<<>>) = 0 /\ <<>> \in Seq(Peer)
          /\ Len(Append(<<>>, s)) = 1 /\ Append(<<>>, s)[1] = s
      BY EmptySeq, AppendProperties
    <3> QED BY <2>1, <2>2, <3>1 DEF Own
  <2> QED BY <1>1, <2>2, <2>3
<1>7. CASE Reads
  <2>1. PICK i \in Live, p \in Seq(Peer) :
           /\ Reduced({}) /\ CachesAre(slots', i, p, slots[i].w)
           /\ \A k \in 1 .. Len(p) : \/ p[k] = peerOf[i]
                                     \/ \E m \in 1 .. Len(slots[i].r) : p[k] = slots[i].r[m]
    BY <1>7 DEF Reads
  <2>2. Live' = Live /\ \A j \in Live : peerOf'[j] = peerOf[j]
    BY <2>1, NoneGone
  <2>3. slots'[i].r = p /\ \A j \in Live \ {i} : slots'[j] = slots[j]
    BY <2>1, LiveType DEF CachesAre
  <2>4. \A k \in 1 .. Len(p) : p[k] = peerOf[i]
    BY <2>1 DEF ReadOwn
  <2>5. Own(i)
    BY <2>2, <2>3, <2>4 DEF Own
  <2> QED BY <1>1, <2>2, <2>3, <2>5
<1>8. ASSUME NEW i \in Live, NEW all, NEW o, Sent(i, all, o)
      PROVE  \A j \in Live' : Own(j)
  <2>1. Reduced({}) /\ CachesAre(slots', i, slots[i].r, o.w)
    BY <1>8 DEF Sent
  <2>2. Live' = Live /\ \A j \in Live : peerOf'[j] = peerOf[j]
    BY <2>1, NoneGone
  <2>3. \A j \in Live : slots'[j].r = slots[j].r
    BY <2>1, LiveType DEF CachesAre
  <2> QED BY <1>1, <2>2, <2>3
<1>9. ASSUME NEW i \in Live, NEW base, NEW sk, NEW q, Reduced({i}), ClosedOf({i}, base, sk),
             CachesAre(base, i, slots[i].r, q)
      PROVE  \A j \in Live' : Own(j)
  <2> DEFINE gone == {i}
  <2>1. Reduced(gone)
    BY <1>9
  <2> HIDE DEF gone
  <2>2. Live' = Live \ gone /\ \A j \in Live \ gone : peerOf'[j] = peerOf[j]
    BY <2>1, ReducedSlots
  <2>3. \A j \in Live \ gone : slots'[j] = slots[j]
    BY <1>9, LiveType DEF ClosedOf, CachesAre, gone
  <2> QED BY <1>1, <2>2, <2>3
<1>10. CASE Writes
  <2>1. PICK i \in Live : \E o \in SendFromCache(slots[i]) : Sent(i, slots[i].w, o)
    BY <1>10 DEF Writes
  <2> QED BY <1>8, <2>1
<1>11. CASE Sends
  <2>1. PICK s \in Peer : \E n \in 1 .. MaxRsp : \E i, o : SentNow(s, n, i, o)
    BY <1>11 DEF Sends
  <2>2. PICK n \in 1 .. MaxRsp : \E i, o : SentNow(s, n, i, o)
    BY <2>1
  <2>4. PICK i, o : SentNow(s, n, i, o)
    BY <2>2
  <2>3. /\ i \in Live
        /\ \/ \E base : /\ Reduced({i})
                        /\ ClosedOf({i}, base, Pushed(slots[i], o.out, o.w = <<>>))
                        /\ CachesAre(base, i, slots[i].r, o.w)
           \/ Sent(i, slots[i].w \o Data(s, n), o)
    BY <2>4 DEF SentNow
  <2> QED BY <1>8, <1>9, <2>3
<1>12. CASE Moves
  <2>1. slots' = slots /\ fdtab' = fdtab
    BY <1>12 DEF Moves, Changed, connVars
  <2> QED BY <1>1, <2>1, SameSlots
<1> QED BY <1>3, <1>4, <1>5, <1>6, <1>7, <1>10, <1>11, <1>12 DEF Kinds

\* recv and closeconn: the read cache of a connection holds what its own peer sent.
THEOREM InputIsOwn ==
    ASSUME ~LateFailure
    PROVE  Spec /\ []NoWrap => []InputOwn
<1>1. Init => TypeInv /\ OwnInv /\ ReadOwn
  <2>1. ASSUME Init PROVE ReadOwn
    <3>1. \A i \in Slot : slots[i].flow = 0
      BY <2>1 DEF Init, ConnInit, FreeSlot
    <3> QED BY <3>1 DEF ReadOwn, Live
  <2> QED BY <2>1, CoreInit
<1>2. TypeInv /\ OwnInv /\ ReadOwn /\ NoWrap /\ [Next]_vars => (TypeInv /\ OwnInv /\ ReadOwn)'
  BY CoreStep, StepKinds, ReadStep
<1>3. TypeInv /\ ReadOwn => InputOwn
  <2> SUFFICES ASSUME TypeInv, ReadOwn, NEW i \in Slot, slots[i].flow # 0,
                      NEW k \in DOMAIN slots[i].r
               PROVE  slots[i].r[k] = Target(slots[i])
    BY DEF InputOwn
  <2>1. i \in Live /\ peerOf[i] = Target(slots[i])
    BY DEF Live, peerOf
  <2>2. slots[i].r \in Seq(Peer)
    BY DEF TypeInv, TablesOK, ConnType
  <2>3. k \in 1 .. Len(slots[i].r)
    BY <2>2, LenProperties
  <2> QED BY <2>1, <2>3 DEF ReadOwn
<1> QED BY <1>1, <1>2, <1>3, PTL DEF Spec

-----------------------------------------------------------------------------
(* What is reported gone                                                   *)

\* An event is of a connection that is there when epoll_wait returns it, and says what
\* the socket has, or nothing when the connection is broken.
LEMMA WaitEvents ==
    ASSUME TypeInv, OwnInv, Wait
    PROVE  /\ \A e \in todo' : Found(e.flow)
           /\ \A s \in ready : EventsOf(sock[s], ep[s].out) # {} =>
                \E e \in todo' : /\ e.flow = ep[s].flow
                                 /\ e.ev \in {{}, EventsOf(sock[s], ep[s].out)}
<1> USE DEF OwnInv
<1>1. PICK bare \in SUBSET {s \in ready : sock[s].peer = "rst"} :
        LET events(s) == EventsOf(sock[s], ep[s].out) \ (IF s \in bare THEN {"in", "out"} ELSE {})
            some == {s \in ready : events(s) # {} \/ s \in bare}
        IN  batch' = {ConnEvent(ep[s].fd, ep[s].flow, events(s)) : s \in some}
                       \cup (IF Waiting(Tcp) # {} THEN {ListenEvent} ELSE {})
                       \cup (IF Waiting(Udp) # {} /\ flow <= MaxFlow THEN {BoundEvent} ELSE {})
  BY DEF Wait
<1> DEFINE events(s) == EventsOf(sock[s], ep[s].out) \ (IF s \in bare THEN {"in", "out"} ELSE {})
           some == {s \in ready : events(s) # {} \/ s \in bare}
           conns == {ConnEvent(ep[s].fd, ep[s].flow, events(s)) : s \in some}
<1>2. batch' \subseteq conns \cup {ListenEvent, BoundEvent} /\ conns \subseteq batch'
  BY <1>1
<1>3. \A s \in Peer : /\ events(s) \in SUBSET {"in", "out"}
                      /\ events(s) \in {{}, EventsOf(sock[s], ep[s].out)}
                      /\ EventsOf(sock[s], ep[s].out) # {} => events(s) # {} \/ s \in bare
  BY DEF EventsOf
<1>4. ListenEvent.kind # "conn" /\ BoundEvent.kind # "conn"
  BY DEF ListenEvent, BoundEvent
<1>5. cur' = None /\ ready \subseteq Peer
  BY DEF Wait, EventsOK, TypeInv, TablesOK
<1> HIDE DEF events
<1>6. ASSUME NEW e \in todo' PROVE Found(e.flow)
  <2>1. e \in batch' /\ e.kind = "conn"
    BY <1>5 DEF todo
  <2>2. PICK s \in ready : s \in Peer /\ e = ConnEvent(ep[s].fd, ep[s].flow, events(s))
    BY <1>2, <1>4, <1>5, <2>1
  <2>3. PICK i \in Live : ~slots[i].udp /\ peerOf[i] = s
    BY <2>2 DEF Tables, NoLeak
  <2>4. e.flow = ep[s].flow
    BY <2>2 DEF ConnEvent
  <2>5. e.flow = slots[i].flow /\ SlotOf(e.flow) = i
    BY <2>3, <2>4 DEF Tables, Placed
  <2> QED BY <2>5 DEF Found, Live
<1>7. ASSUME NEW s \in ready, EventsOf(sock[s], ep[s].out) # {}
      PROVE  \E e \in todo' : /\ e.flow = ep[s].flow
                              /\ e.ev \in {{}, EventsOf(sock[s], ep[s].out)}
  <2> DEFINE e == ConnEvent(ep[s].fd, ep[s].flow, events(s))
  <2>1. s \in Peer /\ s \in some
    BY <1>3, <1>5, <1>7
  <2>2. e \in batch'
    BY <1>2, <2>1
  <2>3. e.kind = "conn" /\ e.flow = ep[s].flow /\ e.ev = events(s) /\ e \in EventType
    <3>1. ep[s].fd \in Nat /\ ep[s].flow \in Nat
      BY <2>1 DEF TypeInv, TablesOK, WatchType
    <3> QED BY <1>3, <2>1, <3>1 DEF ConnEvent, EventType
  <2> HIDE DEF e
  <2>4. e \in todo'
    BY <1>5, <2>2, <2>3, EventTypes DEF todo
  <2> QED BY <1>3, <2>1, <2>3, <2>4
<1> QED BY <1>6, <1>7

\* No event comes of a connection that had none.
NoNewEvent == \A e \in todo' : \E x \in todo : x.flow = e.flow

\* Only epoll_wait brings events.
LEMMA EventsOnlyGo ==
    ASSUME TypeInv, BatchStep PROVE NoNewEvent
<1>1. CASE UNCHANGED <<batch, cur>>
  <2>1. todo' = todo
    BY <1>1 DEF todo
  <2> QED BY <2>1 DEF NoNewEvent
<1>2. ASSUME NEW e \in Events, Taken(e),
             cur' # None => e.kind = "conn" /\ cur'.kind = "conn" /\ cur'.flow = e.flow
      PROVE  NoNewEvent
  <2>1. batch' \subseteq batch
    BY <1>2 DEF Taken
  <2>2. \A y \in todo' : y \in todo \/ (y = cur' /\ cur' # None)
    BY <2>1, EventTypes, <1>2 DEF todo, Taken, TypeInv, LoopOK
  <2>3. cur' # None => e \in todo
    BY <1>2, EventTypes DEF Events
  <2> QED BY <1>2, <2>2, <2>3 DEF NoNewEvent
<1> QED BY <1>1, <1>2 DEF BatchStep

\* Nothing is reported: what has been stays so.
LEMMA ByeSame ==
    ASSUME TypeInv, ByeOnce, FlowsKept, flow' \in Nat, bye' = bye,
           NoNewEvent \/ \A e \in todo' : Found(e.flow)
    PROVE  ByeOnce'
<1> SUFFICES ASSUME NEW f \in Flow, bye[f] # 0
             PROVE  bye[f] = 1 /\ f \in 1 .. flow' /\ ~Found(f)' /\ \A e \in todo' : e.flow # f
  BY DEF ByeOnce, Found, SlotOf
<1>1. bye[f] = 1 /\ f \in 1 .. flow /\ ~Found(f) /\ \A e \in todo : e.flow # f
  BY DEF ByeOnce
<1>2. flow \in Nat /\ flow <= flow'
  BY DEF FlowsKept, TypeInv, LoopOK
<1>3. f \in 1 .. flow'
  BY <1>1, <1>2
<1>4. ~Found(f)'
  BY <1>1 DEF FlowsKept
<1>5. \A e \in todo' : e.flow # f
  BY <1>1 DEF NoNewEvent
<1> QED BY <1>1, <1>3, <1>4, <1>5

\* The connections of F are closed and reported.
LEMMA ByeTold ==
    ASSUME TypeInv, TypeInv', OwnInv, ByeOnce, FlowsKept, NEW F \in SUBSET Nat, Told(F),
           Reduced(Gone(F)), NoNewEvent,
           \A f \in F : f \in 1 .. flow /\ (Found(f) \/ \E e \in todo : e.flow = f),
           \A f \in F : \A e \in todo' : e.flow # f
    PROVE  ByeOnce'
<1> USE DEF OwnInv
<1> DEFINE gone == Gone(F)
<1>1. /\ Live' = Live \ gone /\ Live \subseteq Slot
      /\ \A i \in Live \ gone : slots'[i].flow = slots[i].flow
  <2>1. Reduced(gone)
    OBVIOUS
  <2> HIDE DEF gone
  <2>2. Live' = Live \ gone
    BY <2>1, ReducedSlots
  <2>3. \A i \in Live \ gone : slots'[i].flow = slots[i].flow
    BY <2>1, LiveType DEF Reduced
  <2> QED BY <2>2, <2>3, LiveType
<1>2. ASSUME NEW f \in F, Found(f)' PROVE FALSE
  <2>1. f \in Nat /\ SlotOf(f) \in Slot
    BY SlotRange
  <2>2. slots'[SlotOf(f)].flow = f /\ f # 0
    BY <1>2 DEF Found, SlotOf
  <2>3. PICK i \in Slot : i = SlotOf(f)
    BY <2>1
  <2>4. i \in Live'
    BY <2>2, <2>3 DEF Live
  <2>5. i \in Live /\ slots[i].flow = f
    BY <1>1, <2>2, <2>3, <2>4
  <2>6. i \in Gone(F)
    BY <2>5 DEF Gone
  <2> QED BY <1>1, <2>4, <2>6
<1>3. flow \in Nat /\ flow' \in Nat /\ flow <= flow'
  BY DEF FlowsKept, TypeInv, LoopOK
<1> SUFFICES ASSUME NEW f \in Flow, bye'[f] # 0
             PROVE  bye'[f] = 1 /\ f \in 1 .. flow' /\ ~Found(f)' /\ \A e \in todo' : e.flow # f
  BY DEF ByeOnce, Found, SlotOf
<1>4. bye[f] \in Nat /\ bye'[f] = IF f \in F /\ bye[f] < 2 THEN bye[f] + 1 ELSE bye[f]
  BY DEF Told, TypeInv, UserOK
<1>5. CASE f \in F
  <2>1. bye[f] = 0
    BY <1>5 DEF ByeOnce
  <2>2. f \in 1 .. flow'
    BY <1>3, <1>5
  <2> QED BY <1>2, <1>4, <1>5, <2>1, <2>2
<1>6. CASE f \notin F
  <2>1. bye[f] # 0 /\ bye'[f] = bye[f]
    BY <1>4, <1>6
  <2>2. bye[f] = 1 /\ f \in 1 .. flow /\ ~Found(f) /\ \A e \in todo : e.flow # f
    BY <2>1 DEF ByeOnce
  <2>3. f \in 1 .. flow' /\ ~Found(f)' /\ \A e \in todo' : e.flow # f
    BY <1>3, <2>2 DEF FlowsKept, NoNewEvent
  <2> QED BY <2>1, <2>2, <2>3
<1> QED BY <1>5, <1>6

\* The connection of an event is closed and reported, and the event is done with.
LEMMA EventTold ==
    ASSUME TypeInv, TypeInv', OwnInv, ByeOnce, FlowsKept, NEW e \in Events, e.kind = "conn", Finish(e),
           CloseConn({e.flow}, slots, sock), Told({e.flow}), flow' = flow
    PROVE  ByeOnce'
<1>1. e \in todo /\ e.flow \in Nat
  BY EventTypes DEF Events
<1> DEFINE F == {e.flow}
<1>2. F \in SUBSET Nat /\ Told(F)
  BY <1>1
<1>3. Reduced(Gone(F))
  BY CloseCore DEF OwnInv
<1>4. NoNewEvent
  BY FinishStep, EventsOnlyGo
<1>5. \A f \in F : f \in 1 .. flow /\ (Found(f) \/ \E x \in todo : x.flow = f)
  BY <1>1 DEF OwnInv, EventsOK
<1>6. ASSUME NEW x \in todo', x.flow = e.flow PROVE FALSE
  <2>1. x \in batch /\ x # e /\ x.kind = "conn"
    BY <1>6 DEF todo, Finish, Taken
  <2>2. x \in todo
    BY <2>1, EventTypes
  <2> QED BY <1>1, <1>6, <2>1, <2>2 DEF OwnInv, EventsOK
<1>7. \A f \in F : \A x \in todo' : x.flow # f
  BY <1>6
<1> HIDE DEF F
<1> QED BY <1>2, <1>3, <1>4, <1>5, <1>7, ByeTold

\* A connection is reported when it is closed, and never again.
LEMMA ByeStep ==
    ASSUME TypeInv, OwnInv, NoWrap, ~LateFailure, TypeInv', FlowsKept, ByeOnce, [Next]_vars
    PROVE  ByeOnce'
<1>0. flow' \in Nat
  BY DEF TypeInv, LoopOK
<1>1. CASE bye' = bye /\ BatchStep
  BY <1>0, <1>1, EventsOnlyGo, ByeSame
<1>2. CASE Wait
  <2>1. bye' = bye
    BY <1>2 DEF Wait, userVars
  <2> QED BY <1>0, <1>2, <2>1, WaitEvents, ByeSame
<1>3. CASE \E e \in Events : Accept(e)
  <2>1. bye' = bye
    BY <1>3 DEF Accept, userVars
  <2> QED BY <1>1, <1>3, <2>1, AcceptCore
<1>4. CASE \E e \in Events : AcceptUdp(e)
  <2>1. bye' = bye
    BY <1>4 DEF AcceptUdp, userVars
  <2> QED BY <1>1, <1>4, <2>1, AcceptUdpCore
<1>5. CASE \E e \in Events : Abnormal(e)
  BY <1>5, EventTold DEF Abnormal
<1>6. CASE \E e \in Events : Writable(e)
  <2>1. bye' = bye
    BY <1>6 DEF Writable, userVars
  <2> QED BY <1>1, <1>6, <2>1, WritableCore
<1>7. ASSUME NEW e \in Events, Recv(e) PROVE ByeOnce'
  <2>1. bye' = bye \/ (CloseConn({e.flow}, slots, sock) /\ Told({e.flow}) /\ Finish(e))
    BY <1>7 DEF Recv
  <2>2. e.kind = "conn" /\ flow' = flow
    BY <1>7 DEF Recv
  <2> QED BY <1>1, <1>7, <2>1, <2>2, RecvCore, EventTold
<1>8. CASE RecvReturns
  <2>1. bye' = bye
    BY <1>8 DEF RecvReturns, userVars
  <2> QED BY <1>1, <1>8, <2>1, RecvReturnsCore
<1>9. CASE UdpReturns
  <2>1. bye' = bye
    BY <1>9 DEF UdpReturns, userVars
  <2> QED BY <1>1, <1>9, <2>1, UdpReturnsCore
<1>10. CASE CheckExpire
  <2>1. BatchStep
    BY <1>10, CheckExpireCore
  <2>2. CASE CloseConn(Expired, slots, sock) /\ Told(Expired)
    <3>1. Expired \in SUBSET Nat /\ flow' = flow
      BY <1>10 DEF CheckExpire, Expired, TypeInv, TablesOK, ConnType
    <3>2. Reduced(Gone(Expired)) /\ NoNewEvent
      BY <2>1, <2>2, <3>1, CloseCore, EventsOnlyGo DEF OwnInv
    <3>3. ASSUME NEW f \in Expired PROVE f \in 1 .. flow /\ Found(f)
      <4>1. PICK i \in Slot : f = slots[i].flow /\ f # 0
        BY DEF Expired
      <4>2. i \in Live
        BY <4>1 DEF Live
      <4> QED BY <4>1, <4>2 DEF OwnInv, Tables, Placed, Found
    <3>4. todo' = {}
      BY <1>10 DEF CheckExpire, todo
    <3> QED BY <2>2, <3>1, <3>2, <3>3, <3>4, ByeTold
  <2> QED BY <1>1, <1>10, <2>1, <2>2 DEF CheckExpire
<1>11. CASE User
  <2>1. bye' = bye
    BY <1>11 DEF User, SendClose, SendTo, Connect, userVars
  <2>2. BatchStep
    BY <1>11, SendCloseCore, SendToCore, ConnectCore DEF User
  <2> QED BY <1>1, <2>1, <2>2
<1>12. CASE World
  <2>1. bye' = bye
    BY <1>12 DEF World, PeerConnects, PeerSends, PeerCloses, PeerResets, PeerReads, Ages, Changed, userVars
  <2> QED BY <1>1, <1>12, <2>1, WorldCore
<1>13. CASE UNCHANGED vars
  <2>1. bye' = bye /\ BatchStep
    BY <1>13 DEF vars, userVars, loopVars, BatchStep
  <2> QED BY <1>1, <2>1
<1> QED BY <1>2, <1>3, <1>4, <1>5, <1>6, <1>7, <1>8, <1>9, <1>10, <1>11, <1>12, <1>13 DEF Next, Program

\* CB_DISCONNECT and CB_TIMEOUT: a connection is reported gone once, and when it has been,
\* no connection has its flow.
THEOREM GoneIsOnce ==
    ASSUME ~LateFailure
    PROVE  Spec /\ []NoWrap => []GoneOnce
<1>1. Init => TypeInv /\ OwnInv /\ ByeOnce
  <2>1. Init => ByeOnce
    BY DEF Init, ByeOnce
  <2> QED BY <2>1, CoreInit
<1>2. TypeInv /\ OwnInv /\ ByeOnce /\ NoWrap /\ [Next]_vars => (TypeInv /\ OwnInv /\ ByeOnce)'
  BY CoreStep, ByeStep
<1>3. TypeInv /\ ByeOnce => GoneOnce
  BY DEF ByeOnce, GoneOnce, TypeInv, UserOK
<1> QED BY <1>1, <1>2, <1>3, PTL DEF Spec

-----------------------------------------------------------------------------
(* What is sent                                                            *)

\* One queue after the other.
LEMMA NumberedConcat ==
    ASSUME NEW s, NEW n \in Nat, NEW p \in Seq(Unit), NEW q \in Seq(Unit),
           Numbered(p, s, n), Numbered(q, s, n + Len(p))
    PROVE  Numbered(p \o q, s, n) /\ p \o q \in Seq(Unit) /\ Len(p \o q) = Len(p) + Len(q)
<1> DEFINE u == p \o q
<1>1. /\ u \in Seq(Unit) /\ Len(u) = Len(p) + Len(q) /\ Len(p) \in Nat /\ Len(q) \in Nat
      /\ \A k \in 1 .. Len(p) + Len(q) : u[k] = IF k <= Len(p) THEN p[k] ELSE q[k - Len(p)]
  BY ConcatProperties, LenProperties
<1> HIDE DEF u
<1>2. ASSUME NEW k \in 1 .. Len(u) PROVE u[k] = <<s, n + k>>
  <2>1. CASE k <= Len(p)
    BY <1>1, <2>1, SMTT(30) DEF Numbered
  <2>2. CASE ~(k <= Len(p))
    <3>1. k - Len(p) \in 1 .. Len(q) /\ n + Len(p) + (k - Len(p)) = n + k
      BY <1>1, <2>2
    <3>2. q[k - Len(p)] = <<s, n + Len(p) + (k - Len(p))>>
      BY <3>1 DEF Numbered
    <3> QED BY <1>1, <2>2, <3>1, <3>2
  <2> QED BY <2>1, <2>2
<1> QED BY <1>1, <1>2 DEF Numbered, u

\* What is sent of a queue.
LEMMA NumberedPrefix ==
    ASSUME NEW s, NEW n \in Nat, NEW all \in Seq(Unit), NEW out \in Seq(Unit),
           Numbered(all, s, n), Prefix(out, all)
    PROVE  Numbered(out, s, n)
<1>1. Len(all) \in Nat /\ Len(out) \in Nat /\ Len(out) <= Len(all)
  BY LenProperties DEF Prefix
<1> QED BY <1>1 DEF Numbered, Prefix

\* What is kept of a queue.
LEMMA NumberedSplit ==
    ASSUME NEW s, NEW n \in Nat, NEW all \in Seq(Unit), NEW out \in Seq(Unit), NEW left \in Seq(Unit),
           Numbered(all, s, n), Prefix(out, all), Split(all, out, left)
    PROVE  Numbered(left, s, n + Len(out)) /\ Len(out) + Len(left) = Len(all)
<1>1. Len(all) \in Nat /\ Len(out) \in Nat /\ Len(left) \in Nat /\ Len(out) <= Len(all)
  BY LenProperties DEF Prefix
<1>2. Len(left) = Len(all) - Len(out)
  BY DEF Split
<1>3. ASSUME NEW k \in 1 .. Len(left) PROVE left[k] = <<s, n + Len(out) + k>>
  <2>1. Len(out) + k \in 1 .. Len(all) /\ n + (Len(out) + k) = n + Len(out) + k
    BY <1>1, <1>2
  <2>2. left[k] = all[Len(out) + k]
    BY DEF Split
  <2>3. all[Len(out) + k] = <<s, n + (Len(out) + k)>>
    BY <2>1 DEF Numbered
  <2> QED BY <2>1, <2>2, <2>3
<1> QED BY <1>1, <1>2, <1>3 DEF Numbered

\* What the kernel has taken after a send.
LEMMA SentNumbers ==
    ASSUME NEW s, NEW got \in Seq(Unit), NEW all \in Seq(Unit), NEW o, SentOf(o, all),
           Numbered(got, s, 0), Numbered(all, s, Len(got))
    PROVE  Numbered(got \o o.out, s, 0) /\ Len(got \o o.out) = Len(got) + Len(o.out)
<1> DEFINE z == 0
           n == Len(got)
           out == o.out
<1>1. /\ out \in Seq(Unit) /\ Prefix(out, all) /\ n \in Nat /\ z \in Nat
      /\ Numbered(got, s, z) /\ Numbered(all, s, n) /\ z + Len(got) = n
  BY LenProperties DEF SentOf
<1> HIDE DEF z, n, out
<1>2. Numbered(out, s, z + Len(got))
  BY <1>1, NumberedPrefix
<1>3. Numbered(got \o out, s, z) /\ Len(got \o out) = Len(got) + Len(out)
  BY <1>1, <1>2, NumberedConcat
<1> QED BY <1>3 DEF z, out

\* What waits after a send.
LEMMA RestNumbers ==
    ASSUME NEW s, NEW all \in Seq(Unit), NEW o, SentOf(o, all), ~o.broken,
           NEW n \in Nat, Numbered(all, s, n), NEW m \in Nat, m = n + Len(o.out)
    PROVE  Numbered(o.w, s, m)
<1> DEFINE out == o.out
           left == o.w
<1>1. /\ out \in Seq(Unit) /\ left \in Seq(Unit) /\ Prefix(out, all)
      /\ Split(all, out, left)
  BY DEF SentOf
<1>2. Len(out) \in Nat /\ Len(left) \in Nat /\ Len(all) \in Nat /\ m = n + Len(out)
  BY <1>1, LenProperties
<1> HIDE DEF out, left
<1>3. Numbered(left, s, n + Len(out)) /\ Len(out) + Len(left) = Len(all)
  BY <1>1, NumberedSplit, SMTT(30)
<1> QED BY <1>2, <1>3 DEF left

\* The flow of a peer stays its own, whatever happens to the connections.
LEMMA KnownKept ==
    ASSUME TypeInv, FlowsKept, Fresh, NEW s \in Peer, asked'[s] = asked[s]
    PROVE  Known(s)'
<1> SUFFICES ASSUME asked'[s] # 0
             PROVE  asked'[s] \in 1 .. flow' /\ (Found(asked[s])' => peerOf'[SlotOf(asked'[s])] = s)
  BY DEF Known
<1>1. flow \in Nat /\ flow' \in Nat /\ flow <= flow'
  BY DEF FlowsKept, TypeInv, LoopOK
<1>2. asked[s] \in 1 .. flow /\ (Found(asked[s]) => peerOf[SlotOf(asked[s])] = s)
  BY DEF Fresh, Known, Unused
<1>3. PICK f \in 1 .. flow : f = asked[s]
  BY <1>2
<1>4. Found(asked[s])' => Found(f)'
  BY <1>3 DEF Found
<1>5. Found(f)' => Found(f) /\ peerOf'[SlotOf(f)] = peerOf[SlotOf(f)]
  BY DEF FlowsKept
<1> QED BY <1>1, <1>2, <1>3, <1>4, <1>5

\* A step that gives the kernel nothing keeps what is known of the data.
LEMMA DataKept ==
    ASSUME TypeInv, FlowsKept, DataInv, given' = given,
           \A s \in Peer : /\ sock'[s].got = sock[s].got
                           /\ sock'[s].st \in {"new", "queued"} => sock[s].st \in {"new", "queued"},
           \A i \in Live' : \/ i \in Live /\ peerOf[i] \in Peer /\ peerOf'[i] = peerOf[i]
                               /\ slots'[i].w = slots[i].w
                            \/ StreamOf(i)',
           \A s \in Peer : asked'[s] = asked[s] \/ (Known(s)' /\ sock'[s].st = "open")
    PROVE  DataInv'
<1> USE DEF DataInv
<1>1. GotOwn'
  BY DEF GotOwn, Numbered
<1>2. ASSUME NEW i \in Live' PROVE StreamOf(i)'
  <2>1. CASE i \in Live /\ peerOf[i] \in Peer /\ peerOf'[i] = peerOf[i] /\ slots'[i].w = slots[i].w
    <3>1. PICK s \in Peer : s = peerOf[i] /\ s = peerOf'[i]
      BY <2>1
    <3>2. sock'[s].got = sock[s].got /\ given'[s] = given[s] /\ slots'[i].w = slots[i].w
      BY <2>1
    <3>3. /\ Len(sock[s].got) + Len(slots[i].w) = given[s]
          /\ Numbered(slots[i].w, s, Len(sock[s].got))
      BY <2>1, <3>1, ZenonT(60) DEF Stream, StreamOf
    <3>4. /\ Len(sock'[s].got) + Len(slots'[i].w) = given'[s]
          /\ Numbered(slots'[i].w, s, Len(sock'[s].got))
      BY <3>2, <3>3
    <3> QED BY <3>1, <3>4 DEF StreamOf, Numbered
  <2> QED BY <1>2, <2>1
<1>3. Stream'
  BY <1>2 DEF Stream, StreamOf
<1>4. ASSUME NEW s \in Peer PROVE Known(s)' /\ Unused(s)'
  <2>1. CASE asked'[s] = asked[s]
    <3>1. Known(s)'
      BY <2>1, KnownKept
    <3>2. Unused(s)'
      BY <2>1 DEF Fresh, Unused, Known
    <3> QED BY <3>1, <3>2
  <2>2. CASE Known(s)' /\ sock'[s].st = "open"
    BY <2>2 DEF Unused
  <2> QED BY <2>1, <2>2
<1>5. Fresh'
  BY <1>4 DEF Fresh, Known, Unused
<1> QED BY <1>1, <1>3, <1>5

\* Nothing is sent, and no connection comes.
LEMMA DataStays ==
    ASSUME TypeInv, TypeInv', OwnInv, FlowsKept, DataInv,
           Wait \/ Quiet \/ Closes \/ Drops \/ Moves
    PROVE  DataInv'
<1>1. \A i \in Live : peerOf[i] \in Peer
  BY DEF OwnInv, Tables, Placed
<1>2. sock \in [Peer -> SockType]
  BY DEF TypeInv, TablesOK
<1>3. ASSUME slots' = slots, fdtab' = fdtab
      PROVE  \A i \in Live' : i \in Live /\ peerOf[i] \in Peer /\ peerOf'[i] = peerOf[i]
                              /\ slots'[i].w = slots[i].w
  BY <1>1, <1>3, SameSlots
<1>4. CASE Wait \/ Quiet
  <2>1. slots' = slots /\ fdtab' = fdtab /\ sock' = sock /\ asked' = asked /\ given' = given
    BY <1>4 DEF Wait, Quiet, connVars, kernVars, userVars
  <2> QED BY <1>3, <2>1, DataKept
<1>5. CASE Closes
  <2>1. PICK F \in SUBSET Nat : Reduced(Gone(F)) /\ ClosedOf(Gone(F), slots, sock)
                                /\ UNCHANGED <<asked, given>>
    BY <1>5 DEF Closes
  <2> DEFINE gone == Gone(F)
  <2>2. Reduced(gone) /\ ClosedOf(gone, slots, sock)
    BY <2>1
  <2> HIDE DEF gone
  <2>3. Live' = Live \ gone /\ \A i \in Live \ gone : peerOf'[i] = peerOf[i]
    BY <2>2, ReducedSlots DEF OwnInv
  <2>4. \A i \in Live \ gone : slots'[i] = slots[i]
    BY <2>2, LiveType DEF ClosedOf
  <2>5. ASSUME NEW s \in Peer
        PROVE  sock'[s].got = sock[s].got
               /\ (sock'[s].st \in {"new", "queued"} => sock[s].st \in {"new", "queued"})
    <3>1. sock'[s] = GoneSock(sock[s]) \/ sock'[s] = sock[s]
      BY <2>2 DEF ClosedOf
    <3> QED BY <1>2, <3>1, RecordTypes
  <2> QED BY <1>1, <2>1, <2>3, <2>4, <2>5, DataKept
<1>6. CASE Drops
  <2>1. PICK s \in Peer : /\ slots' = slots /\ fdtab' = fdtab
                          /\ \A x \in Peer : sock'[x] = IF x = s THEN GoneSock(sock[x]) ELSE sock[x]
                          /\ UNCHANGED <<asked, given>>
    BY <1>6 DEF Drops
  <2>2. ASSUME NEW x \in Peer
        PROVE  sock'[x].got = sock[x].got
               /\ (sock'[x].st \in {"new", "queued"} => sock[x].st \in {"new", "queued"})
    <3>1. sock'[x] = GoneSock(sock[x]) \/ sock'[x] = sock[x]
      BY <2>1
    <3> QED BY <1>2, <3>1, RecordTypes
  <2> QED BY <1>3, <2>1, <2>2, DataKept
<1>7. CASE Moves
  <2>1. PICK s \in Peer, k \in SockType, wake \in BOOLEAN :
           /\ Changed(s, k, wake) /\ k.got = sock[s].got
           /\ k.st \in {"new", "queued"} => sock[s].st \in {"new", "queued"}
    BY <1>7 DEF Moves
  <2>2. /\ slots' = slots /\ fdtab' = fdtab /\ asked' = asked /\ given' = given
        /\ sock' = [sock EXCEPT ![s] = k]
    BY <2>1 DEF Changed, connVars, userVars
  <2>3. \A x \in Peer : /\ sock'[x].got = sock[x].got
                        /\ sock'[x].st \in {"new", "queued"} => sock[x].st \in {"new", "queued"}
    BY <1>2, <2>1, <2>2
  <2> QED BY <1>3, <2>2, <2>3, DataKept
<1> QED BY <1>4, <1>5, <1>6, <1>7

\* A new connection has sent nothing, and was given nothing.
LEMMA DataConnects ==
    ASSUME TypeInv, TypeInv', OwnInv, FlowsKept, DataInv, Connects
    PROVE  DataInv'
<1> USE DEF OwnInv
<1>1. PICK f \in Nat, d \in Nat, s \in Peer :
         /\ Added(f, d, s) /\ sock'[s].got = sock[s].got
         /\ asked' \in {asked, [asked EXCEPT ![s] = f]} /\ given' = given
  BY DEF Connects
<1>2. /\ Live' = Live \cup {SlotOf(f)} /\ peerOf'[SlotOf(f)] = s
      /\ \A i \in Live : slots'[i] = slots[i] /\ peerOf'[i] = peerOf[i]
  BY <1>1, AddedSlots
<1>3. /\ slots'[SlotOf(f)].w = <<>> /\ sock[s].st \in {"new", "queued"} /\ sock'[s].st = "open"
      /\ \A x \in Peer \ {s} : sock'[x] = sock[x]
      /\ f \in 1 .. flow'
  BY <1>1 DEF Added, TypeInv, LoopOK
<1>4. sock[s].got = <<>> /\ given[s] = 0
  BY <1>3 DEF DataInv, Fresh, Known, Unused
<1>5. StreamOf(SlotOf(f))'
  <2> DEFINE i == SlotOf(f)
  <2>1. slots'[i].w = <<>> /\ sock'[peerOf'[i]].got = <<>> /\ given'[peerOf'[i]] = 0
    BY <1>1, <1>2, <1>3, <1>4
  <2>2. Len(<<>>) = 0
    BY EmptySeq
  <2> QED BY <2>1, <2>2 DEF StreamOf, Numbered
<1>6. ASSUME NEW i \in Live'
      PROVE  \/ i \in Live /\ peerOf[i] \in Peer /\ peerOf'[i] = peerOf[i] /\ slots'[i].w = slots[i].w
             \/ StreamOf(i)'
  <2>1. CASE i \in Live
    BY <1>2, <2>1 DEF Tables, Placed
  <2>2. CASE i = SlotOf(f)
    BY <1>5, <2>2
  <2> QED BY <1>2, <2>1, <2>2
<1>7. \A x \in Peer : asked'[x] = asked[x] \/ (Known(x)' /\ sock'[x].st = "open")
  <2>1. CASE asked' = asked
    BY <2>1
  <2>2. CASE asked' = [asked EXCEPT ![s] = f]
    <3>1. asked'[s] = f /\ \A x \in Peer \ {s} : asked'[x] = asked[x]
      BY <2>2 DEF TypeInv, UserOK
    <3>2. Known(s)'
      BY <1>2, <1>3, <3>1 DEF Known
    <3> QED BY <1>3, <3>1, <3>2
  <2> QED BY <1>1, <2>1, <2>2
<1>8. \A x \in Peer : /\ sock'[x].got = sock[x].got
                      /\ sock'[x].st \in {"new", "queued"} => sock[x].st \in {"new", "queued"}
  BY <1>1, <1>3
<1> QED BY <1>1, <1>6, <1>7, <1>8, DataKept

\* recv, and what follows it, touches the read cache only.
LEMMA DataReads ==
    ASSUME TypeInv, TypeInv', OwnInv, FlowsKept, DataInv, Reads
    PROVE  DataInv'
<1> USE DEF OwnInv
<1>1. PICK i \in Live, p \in Seq(Peer) :
         /\ Reduced({}) /\ CachesAre(slots', i, p, slots[i].w)
         /\ \A x \in Peer : SameSock(sock[x], sock'[x])
         /\ given' = given
         /\ asked' \in {asked, [asked EXCEPT ![peerOf[i]] = slots[i].flow]}
  BY DEF Reads
<1>2. Live' = Live /\ \A j \in Live : peerOf'[j] = peerOf[j]
  BY <1>1, NoneGone
<1>3. /\ \A j \in Live : slots'[j].w = slots[j].w
      /\ slots'[i].flow = slots[i].flow
  BY <1>1, LiveType DEF CachesAre, SameConns
<1>4. /\ \A j \in Live : peerOf[j] \in Peer
      /\ slots[i].flow \in 1 .. flow /\ SlotOf(slots[i].flow) = i /\ sock[peerOf[i]].st = "open"
  BY DEF Tables, Placed
<1>5. \A x \in Peer : sock'[x].got = sock[x].got /\ sock'[x].st = sock[x].st
  BY <1>1 DEF SameSock
<1>6. \A x \in Peer : asked'[x] = asked[x] \/ (Known(x)' /\ sock'[x].st = "open")
  <2>1. CASE asked' = asked
    BY <2>1
  <2>2. CASE asked' = [asked EXCEPT ![peerOf[i]] = slots[i].flow]
    <3>1. asked'[peerOf[i]] = slots[i].flow /\ \A x \in Peer \ {peerOf[i]} : asked'[x] = asked[x]
      BY <1>4, <2>2 DEF TypeInv, UserOK
    <3>2. flow \in Nat /\ flow' \in Nat /\ flow <= flow'
      BY DEF FlowsKept, TypeInv, LoopOK
    <3>3. ASSUME NEW x \in Peer, x = peerOf[i] PROVE Known(x)'
      BY <1>2, <1>4, <3>1, <3>2, <3>3 DEF Known
    <3> QED BY <1>4, <1>5, <3>1, <3>3
  <2> QED BY <1>1, <2>1, <2>2
<1> QED BY <1>1, <1>2, <1>3, <1>4, <1>5, <1>6, DataKept

\* The peer of i is sent the first of `all', and its connection stays.
LEMMA DataSent ==
    ASSUME TypeInv, TypeInv', OwnInv, FlowsKept, DataInv,
           NEW i \in Live, NEW all \in Seq(Unit), NEW o, Sent(i, all, o),
           Numbered(all, peerOf[i], Len(sock[peerOf[i]].got)),
           Len(sock[peerOf[i]].got) + Len(all) = given'[peerOf[i]],
           \A x \in Peer \ {peerOf[i]} : given'[x] = given[x]
    PROVE  DataInv'
<1> USE DEF OwnInv
<1>1. /\ Reduced({}) /\ CachesAre(slots', i, slots[i].r, o.w) /\ asked' = asked
      /\ sock'[peerOf[i]].st = sock[peerOf[i]].st
      /\ sock'[peerOf[i]].got = sock[peerOf[i]].got \o o.out
      /\ \A x \in Peer \ {peerOf[i]} : sock'[x] = sock[x]
      /\ SentOf(o, all) /\ ~o.broken
  BY DEF Sent
<1>2. Live' = Live /\ \A j \in Live : peerOf'[j] = peerOf[j]
  BY <1>1, NoneGone
<1>3. slots'[i].w = o.w /\ \A j \in Live \ {i} : slots'[j] = slots[j]
  BY <1>1, LiveType DEF CachesAre
<1>4. \A j \in Live : peerOf[j] \in Peer /\ (j # i => peerOf[j] # peerOf[i])
  BY DEF Tables, Placed, OwnPeer
<1>5. sock[peerOf[i]].st = "open"
  BY DEF Tables, Placed
<1>6. PICK s \in Peer : s = peerOf[i]
  BY <1>4
<1> DEFINE got == sock[s].got
<1>7. got \in Seq(Unit) /\ Numbered(got, s, 0) /\ Numbered(all, s, Len(got))
      /\ sock'[s].got = got \o o.out
  <2>1. sock[s] \in SockType
    BY DEF TypeInv, TablesOK
  <2> QED BY <1>1, <1>6, <2>1 DEF SockType, DataInv, GotOwn
<1>8. Len(got) + Len(all) = given'[s]
  BY <1>6
<1> HIDE DEF got
<1>9. /\ Numbered(got \o o.out, s, 0)
      /\ Numbered(o.w, s, Len(got \o o.out)) /\ Len(got \o o.out) + Len(o.w) = Len(got) + Len(all)
  <2>1. SentOf(o, all) /\ ~o.broken
    BY <1>1
  <2>2. got \in Seq(Unit) /\ Numbered(got, s, 0) /\ Numbered(all, s, Len(got))
    BY <1>7
  <2>3. Numbered(got \o o.out, s, 0) /\ Len(got \o o.out) = Len(got) + Len(o.out)
    BY <2>1, <2>2, SentNumbers
  <2> DEFINE n == Len(got)
             m == Len(got \o o.out)
  <2>4. n \in Nat /\ Numbered(all, s, n) /\ m = n + Len(o.out)
    BY <2>2, <2>3, LenProperties
  <2>5. m \in Nat
    BY <2>1, <2>4, LenProperties DEF SentOf
  <2> HIDE DEF n, m
  <2>6. Numbered(o.w, s, m)
    BY <2>1, <2>4, <2>5, RestNumbers
  <2>7. m + Len(o.w) = n + Len(all)
    <3>1. Split(all, o.out, o.w) /\ o.out \in Seq(Unit) /\ o.w \in Seq(Unit)
      BY <2>1 DEF SentOf
    <3>2. Len(o.out) \in Nat /\ Len(o.w) \in Nat /\ Len(all) \in Nat
      BY <3>1, LenProperties
    <3>3. Len(o.w) = Len(all) - Len(o.out)
      BY <3>1 DEF Split
    <3>4. PICK a \in Nat, b \in Nat, c \in Nat : a = Len(o.out) /\ b = Len(o.w) /\ c = Len(all)
      BY <3>2
    <3>5. b = c - a
      BY <3>3, <3>4
    <3>6. m = n + a /\ n \in Nat
      BY <2>4, <3>4
    <3>7. m + b = n + c
      BY <3>5, <3>6
    <3> QED BY <3>4, <3>7
  <2> QED BY <2>3, <2>6, <2>7 DEF n, m
<1>10. GotOwn'
  <2>1. \A x \in Peer : Numbered(sock'[x].got, x, 0)
    BY <1>1, <1>6, <1>7, <1>9 DEF DataInv, GotOwn
  <2> QED BY <2>1 DEF GotOwn, Numbered
<1>11. Stream'
  <2>1. ASSUME NEW j \in Live, j # i PROVE StreamOf(j)'
    <3>1. PICK x \in Peer : x = peerOf[j] /\ x = peerOf'[j] /\ x # s
      BY <1>2, <1>4, <1>6, <2>1
    <3>2. sock'[x] = sock[x] /\ given'[x] = given[x] /\ slots'[j] = slots[j]
      BY <1>1, <1>3, <1>6, <2>1, <3>1
    <3>3. /\ Len(sock[x].got) + Len(slots[j].w) = given[x]
          /\ Numbered(slots[j].w, x, Len(sock[x].got))
      BY <3>1 DEF DataInv, Stream, StreamOf
    <3>4. /\ Len(sock'[x].got) + Len(slots'[j].w) = given'[x]
          /\ Numbered(slots'[j].w, x, Len(sock'[x].got))
      BY <3>2, <3>3
    <3> QED BY <3>1, <3>4 DEF StreamOf, Numbered
  <2>2. StreamOf(i)'
    <3>1. /\ Len(sock'[s].got) + Len(slots'[i].w) = given'[s]
          /\ Numbered(slots'[i].w, s, Len(sock'[s].got))
      BY <1>3, <1>7, <1>8, <1>9
    <3>2. peerOf'[i] = s
      BY <1>2, <1>6
    <3> QED BY <3>1, <3>2 DEF StreamOf, Numbered
  <2> QED BY <1>2, <2>1, <2>2 DEF Stream, StreamOf
<1>12. Fresh'
  <2>1. ASSUME NEW x \in Peer PROVE Known(x)' /\ Unused(x)'
    <3>1. Known(x)'
      BY <1>1, KnownKept DEF DataInv
    <3>2. Unused(x)'
      BY <1>1, <1>5, <1>6 DEF DataInv, Fresh, Unused, Known
    <3> QED BY <3>1, <3>2
  <2> QED BY <2>1 DEF Fresh, Known, Unused
<1> QED BY <1>10, <1>11, <1>12 DEF DataInv

\* A connection is closed after a last send.
LEMMA LastEffect ==
    ASSUME TypeInv, OwnInv, NEW i \in Live, NEW out \in Seq(Unit), NEW done, done \in BOOLEAN,
           NEW base, NEW sk, sk = Pushed(slots[i], out, done), ClosedOf({i}, base, sk),
           NEW p, NEW q, CachesAre(base, i, p, q)
    PROVE  /\ \A j \in Live \ {i} : slots'[j] = slots[j]
           /\ sock'[peerOf[i]].got = sock[peerOf[i]].got \o out /\ sock'[peerOf[i]].st = "gone"
           /\ \A x \in Peer \ {peerOf[i]} : sock'[x] = sock[x]
<1>1. SameSocks(sk) /\ peerOf[i] \in Peer /\ \A x \in Peer \ {peerOf[i]} : sk[x] = sock[x]
  BY PushedEffect
<1>2. sk[peerOf[i]].got = sock[peerOf[i]].got \o out
  BY PushedEffect
<1>3. PICK s \in Peer : s = peerOf[i]
  BY <1>1
<1>4. sk[s] \in SockType
  BY <1>1 DEF SameSocks
<1>5. Leaving({i}) = {s}
  BY <1>3 DEF Leaving
<1>6. \A x \in Peer : sock'[x] = IF x = s THEN GoneSock(sk[x]) ELSE sk[x]
  BY <1>5 DEF ClosedOf
<1>7. sock'[s].got = sk[s].got /\ sock'[s].st = "gone"
  BY <1>4, <1>6, RecordTypes
<1>8. \A j \in Live \ {i} : slots'[j] = slots[j]
  BY LiveType DEF ClosedOf, CachesAre
<1> QED BY <1>1, <1>2, <1>3, <1>6, <1>7, <1>8

\* The peer of i is sent the first of `all', and its connection is closed.
LEMMA DataSentLast ==
    ASSUME TypeInv, TypeInv', OwnInv, FlowsKept, DataInv,
           NEW i \in Live, NEW all \in Seq(Unit), NEW o, SentOf(o, all),
           Reduced({i}), \A j \in Live \ {i} : slots'[j] = slots[j],
           sock'[peerOf[i]].got = sock[peerOf[i]].got \o o.out, sock'[peerOf[i]].st = "gone",
           \A x \in Peer \ {peerOf[i]} : sock'[x] = sock[x],
           Numbered(all, peerOf[i], Len(sock[peerOf[i]].got)), asked' = asked,
           \A x \in Peer \ {peerOf[i]} : given'[x] = given[x]
    PROVE  DataInv'
<1> DEFINE gone == {i}
<1>1. Reduced(gone)
  OBVIOUS
<1> HIDE DEF gone
<1>2. Live' = Live \ gone /\ \A j \in Live \ gone : peerOf'[j] = peerOf[j]
  BY <1>1, ReducedSlots DEF OwnInv
<1>3. \A j \in Live \ gone : slots'[j] = slots[j]
  BY DEF gone
<1>4. \A j \in Live : peerOf[j] \in Peer /\ (j # i => peerOf[j] # peerOf[i])
  BY DEF OwnInv, Tables, Placed, OwnPeer
<1>5. PICK s \in Peer : s = peerOf[i]
  BY <1>4
<1>8. /\ sock'[s].got = sock[s].got \o o.out /\ sock'[s].st = "gone"
      /\ \A x \in Peer \ {s} : sock'[x] = sock[x]
  BY <1>5
<1> DEFINE got == sock[s].got
<1>9. got \in Seq(Unit) /\ Numbered(got, s, 0) /\ Numbered(all, s, Len(got))
      /\ sock'[s].got = got \o o.out
  <2>1. sock[s] \in SockType
    BY DEF TypeInv, TablesOK
  <2> QED BY <1>5, <1>8, <2>1 DEF SockType, DataInv, GotOwn
<1> HIDE DEF got
<1>10. Numbered(got \o o.out, s, 0)
  BY <1>9, SentNumbers
<1>11. GotOwn'
  <2>1. \A x \in Peer : Numbered(sock'[x].got, x, 0)
    BY <1>8, <1>9, <1>10 DEF DataInv, GotOwn
  <2> QED BY <2>1 DEF GotOwn, Numbered
<1>12. Stream'
  <2>1. ASSUME NEW j \in Live \ gone PROVE StreamOf(j)'
    <3>1. PICK x \in Peer : x = peerOf[j] /\ x = peerOf'[j] /\ x # s
      BY <1>2, <1>4, <1>5, <2>1 DEF gone
    <3>2. sock'[x] = sock[x] /\ given'[x] = given[x] /\ slots'[j] = slots[j]
      BY <1>3, <1>5, <1>8, <2>1, <3>1
    <3>3. /\ Len(sock[x].got) + Len(slots[j].w) = given[x]
          /\ Numbered(slots[j].w, x, Len(sock[x].got))
      BY <3>1 DEF DataInv, Stream, StreamOf
    <3>4. /\ Len(sock'[x].got) + Len(slots'[j].w) = given'[x]
          /\ Numbered(slots'[j].w, x, Len(sock'[x].got))
      BY <3>2, <3>3
    <3> QED BY <3>1, <3>4 DEF StreamOf, Numbered
  <2> QED BY <1>2, <2>1 DEF Stream, StreamOf
<1>13. Fresh'
  <2>1. ASSUME NEW x \in Peer PROVE Known(x)' /\ Unused(x)'
    <3>1. Known(x)'
      BY KnownKept DEF DataInv
    <3>2. Unused(x)'
      BY <1>5, <1>8 DEF DataInv, Fresh, Unused, Known
    <3> QED BY <3>1, <3>2
  <2> QED BY <2>1 DEF Fresh, Known, Unused
<1> QED BY <1>11, <1>12, <1>13 DEF DataInv

\* sendfromcache
LEMMA DataWrites ==
    ASSUME TypeInv, TypeInv', OwnInv, FlowsKept, DataInv, Writes
    PROVE  DataInv'
<1>1. PICK i \in Live : \E o \in SendFromCache(slots[i]) : Sent(i, slots[i].w, o) /\ given' = given
  BY DEF Writes
<1>2. PICK o : Sent(i, slots[i].w, o) /\ given' = given
  BY <1>1
<1> DEFINE all == slots[i].w
<1>3. all \in Seq(Unit)
  BY DEF TypeInv, TablesOK, ConnType, Live
<1>4. /\ Numbered(all, peerOf[i], Len(sock[peerOf[i]].got))
      /\ Len(sock[peerOf[i]].got) + Len(all) = given'[peerOf[i]]
      /\ Sent(i, all, o)
  BY <1>2 DEF DataInv, Stream, StreamOf
<1>5. \A x \in Peer \ {peerOf[i]} : given'[x] = given[x]
  BY <1>2
<1> HIDE DEF all
<1> QED BY <1>3, <1>4, <1>5, DataSent

\* sendto
LEMMA DataSends ==
    ASSUME TypeInv, TypeInv', OwnInv, FlowsKept, DataInv, Sends
    PROVE  DataInv'
<1>1. PICK s \in Peer : \E n \in 1 .. MaxRsp : \E i, o : SentNow(s, n, i, o)
  BY DEF Sends
<1>2. PICK n \in 1 .. MaxRsp : \E i, o : SentNow(s, n, i, o)
  BY <1>1
<1>3. PICK i, o : SentNow(s, n, i, o)
  BY <1>2
<1>4. /\ i \in Live /\ i = SlotOf(asked[s]) /\ Found(asked[s]) /\ asked' = asked
      /\ given' = [given EXCEPT ![s] = @ + n]
      /\ SentOf(o, slots[i].w \o Data(s, n))
  BY <1>3 DEF SentNow
<1>5. n \in Nat
  BY SizeAssumption
<1>6. asked[s] # 0
  BY <1>4 DEF Found
<1>7. peerOf[i] = s
  BY <1>4, <1>6 DEF DataInv, Fresh, Known, Unused
<1> DEFINE got == sock[s].got
           w == slots[i].w
           q == Data(s, n)
           all == w \o q
<1>8. /\ got \in Seq(Unit) /\ w \in Seq(Unit) /\ given[s] \in Nat
      /\ Len(got) + Len(w) = given[s] /\ Numbered(w, s, Len(got))
  <2>1. sock[s] \in SockType /\ slots[i] \in ConnType /\ given[s] \in Nat
    BY <1>4 DEF TypeInv, TablesOK, UserOK, Live
  <2> QED BY <1>4, <1>7, <2>1 DEF SockType, ConnType, DataInv, Stream, StreamOf
<1>9. q \in Seq(Unit) /\ Len(q) = n
  BY DataType DEF Data
<1>10. Numbered(q, s, given[s])
  BY <1>5, <1>8, <1>9 DEF Data, Numbered
<1>11. SentOf(o, all)
  BY <1>4
<1> HIDE DEF got, w, q
<1>12. Len(got) \in Nat
  BY <1>8, LenProperties
<1> DEFINE m == Len(got)
<1>13. m \in Nat /\ Numbered(w, s, m) /\ Numbered(q, s, m + Len(w))
  BY <1>8, <1>10, <1>12
<1> HIDE DEF m
<1>14. Numbered(all, s, m) /\ all \in Seq(Unit) /\ Len(all) = Len(w) + Len(q)
  BY <1>8, <1>9, <1>13, NumberedConcat, SMTT(30)
<1>15. Len(w) \in Nat
  BY <1>8, LenProperties
<1>16. given'[s] = given[s] + n /\ \A x \in Peer \ {s} : given'[x] = given[x]
  BY <1>4 DEF TypeInv, UserOK
<1>17. m + Len(all) = given'[s]
  BY <1>8, <1>9, <1>13, <1>14, <1>15, <1>16 DEF m
<1> HIDE DEF all
<1>18. /\ Numbered(all, peerOf[i], Len(sock[peerOf[i]].got))
       /\ Len(sock[peerOf[i]].got) + Len(all) = given'[peerOf[i]]
       /\ \A x \in Peer \ {peerOf[i]} : given'[x] = given[x]
  BY <1>7, <1>14, <1>16, <1>17 DEF m, got
<1>19. CASE Sent(i, all, o)
  BY <1>4, <1>14, <1>18, <1>19, DataSent
<1>20. ASSUME NEW base, Reduced({i}), ClosedOf({i}, base, Pushed(slots[i], o.out, o.w = <<>>)),
              CachesAre(base, i, slots[i].r, o.w)
       PROVE  DataInv'
  <2> DEFINE done == (o.w = <<>>)
             out == o.out
             sk == Pushed(slots[i], out, done)
  <2>1. /\ done \in BOOLEAN /\ sk = Pushed(slots[i], out, done) /\ ClosedOf({i}, base, sk)
        /\ out \in Seq(Unit)
    BY <1>4, <1>20 DEF SentOf
  <2> HIDE DEF done, sk, out
  <2>2. /\ \A j \in Live \ {i} : slots'[j] = slots[j]
        /\ sock'[peerOf[i]].got = sock[peerOf[i]].got \o out /\ sock'[peerOf[i]].st = "gone"
        /\ \A x \in Peer \ {peerOf[i]} : sock'[x] = sock[x]
    BY <1>4, <1>20, <2>1, LastEffect
  <2>3. sock'[peerOf[i]].got = sock[peerOf[i]].got \o o.out
    BY <2>2 DEF out
  <2> QED BY <1>4, <1>11, <1>14, <1>18, <1>20, <2>2, <2>3, DataSentLast
<1>21. \/ \E base : /\ Reduced({i})
                    /\ ClosedOf({i}, base, Pushed(slots[i], o.out, o.w = <<>>))
                    /\ CachesAre(base, i, slots[i].r, o.w)
       \/ Sent(i, all, o)
  BY <1>3 DEF SentNow, all, w, q
<1> QED BY <1>19, <1>20, <1>21

\* Every step keeps what is known of the data.
LEMMA DataStep ==
    ASSUME TypeInv, TypeInv', OwnInv, FlowsKept, DataInv, Wait \/ Kinds
    PROVE  DataInv'
BY DataStays, DataConnects, DataReads, DataWrites, DataSends DEF Kinds

\* send, sendto, sendfromcache and closeconn: what the kernel has taken for a peer is what
\* was given for it, from the first unit on and in order, and of no other peer, whatever was
\* cached, closed and reused in between.
THEOREM AnswersAreOwn ==
    ASSUME ~LateFailure
    PROVE  Spec /\ []NoWrap => []AnswersOwn
<1>1. Init => TypeInv /\ OwnInv /\ DataInv
  <2>1. ASSUME Init PROVE DataInv
    <3>1. \A i \in Slot : slots[i].flow = 0
      BY <2>1 DEF Init, ConnInit, FreeSlot
    <3>2. Stream
      BY <3>1 DEF Stream, Live
    <3>3. \A s \in Peer : sock[s].got = <<>> /\ given[s] = 0 /\ asked[s] = 0
      BY <2>1 DEF Init, ConnInit, NewSock
    <3>4. Len(<<>>) = 0
      BY EmptySeq
    <3>5. GotOwn
      BY <3>3, <3>4 DEF GotOwn, Numbered
    <3> QED BY <3>2, <3>3, <3>5 DEF DataInv, Fresh, Known, Unused
  <2> QED BY <2>1, CoreInit
<1>2. TypeInv /\ OwnInv /\ DataInv /\ NoWrap /\ [Next]_vars => (TypeInv /\ OwnInv /\ DataInv)'
  BY CoreStep, StepKinds, DataStep
<1>3. TypeInv /\ DataInv => AnswersOwn
  <2> SUFFICES ASSUME TypeInv, DataInv, NEW s \in Peer, NEW k \in DOMAIN sock[s].got
               PROVE  sock[s].got[k] = <<s, k>>
    BY DEF AnswersOwn
  <2>1. sock[s] \in SockType
    BY DEF TypeInv, TablesOK
  <2>2. sock[s].got \in Seq(Unit)
    BY <2>1 DEF SockType
  <2>3. k \in 1 .. Len(sock[s].got)
    BY <2>2, LenProperties
  <2> QED BY <2>3 DEF DataInv, GotOwn, Numbered
<1> QED BY <1>1, <1>2, <1>3, PTL DEF Spec

-----------------------------------------------------------------------------
(* What is told by epoll                                                   *)

\* A registered socket is that of the connection under whose flow it is registered.
LEMMA Registered ==
    ASSUME Tables, NEW s \in Peer, ep[s].on
    PROVE  \E i \in Live : /\ ~slots[i].udp /\ peerOf[i] = s
                           /\ ep[s].flow = slots[i].flow /\ SlotOf(ep[s].flow) = i
                           /\ Found(ep[s].flow)
<1>1. PICK i \in Live : ~slots[i].udp /\ peerOf[i] = s
  BY DEF Tables, NoLeak
<1>2. ep[s].flow = slots[i].flow /\ SlotOf(slots[i].flow) = i /\ slots[i].flow # 0
  BY <1>1 DEF Tables, Placed, Live
<1> QED BY <1>1, <1>2 DEF Found

\* What is seen stays seen while the registration stays, but for the events of F.
LEMMA SeenStays ==
    ASSUME Tables, NEW s \in Peer, ep[s].on, ep'[s].flow = ep[s].flow, s \in ready => s \in ready',
           NEW F, ep[s].flow \notin F
    PROVE  /\ InKept(F) /\ InSeen(s) => InSeen(s)'
           /\ OutKept(F) /\ OutSeen(s) => OutSeen(s)'
<1>1. Found(ep[s].flow)
  BY Registered
<1>2. ASSUME InKept(F), InSeen(s) PROVE InSeen(s)'
  <2>1. CASE s \in ready
    BY <2>1 DEF InSeen
  <2>2. ASSUME NEW e \in todo, e.flow = ep[s].flow, e.ev # {"out"} PROVE InSeen(s)'
    <3>1. \E x \in todo' : x.flow = e.flow /\ x.ev # {"out"}
      BY <1>1, <1>2, <2>2 DEF InKept
    <3> QED BY <2>2, <3>1 DEF InSeen
  <2> QED BY <1>2, <2>1, <2>2 DEF InSeen
<1>3. ASSUME OutKept(F), OutSeen(s) PROVE OutSeen(s)'
  <2>1. CASE s \in ready
    BY <2>1 DEF OutSeen
  <2>2. ASSUME NEW e \in todo, e.flow = ep[s].flow, e.ev # {"in"} PROVE OutSeen(s)'
    <3>1. \E x \in todo' : x.flow = e.flow /\ x.ev # {"in"}
      BY <1>1, <1>3, <2>2 DEF OutKept
    <3> QED BY <2>2, <3>1 DEF OutSeen
  <2> QED BY <1>3, <2>1, <2>2 DEF OutSeen
<1> QED BY <1>2, <1>3

\* epoll_wait reports what it finds ready.
LEMMA WaitSees ==
    ASSUME TypeInv, OwnInv, Wait, NEW s \in Peer
    PROVE  /\ Readable(sock[s]) /\ InSeen(s) => InSeen(s)'
           /\ ep[s].out /\ ~sock[s].full /\ OutSeen(s) => OutSeen(s)'
<1>1. ep' = ep /\ todo = {}
  BY DEF Wait, OwnInv, EventsOK, todo
<1>2. InSeen(s) \/ OutSeen(s) => s \in ready
  BY <1>1 DEF InSeen, OutSeen
<1>3. ASSUME s \in ready, EventsOf(sock[s], ep[s].out) # {}
      PROVE  \E e \in todo' : e.flow = ep[s].flow /\ e.ev \in {{}, EventsOf(sock[s], ep[s].out)}
  BY <1>3, WaitEvents
<1>4. /\ Readable(sock[s]) => "in" \in EventsOf(sock[s], ep[s].out)
      /\ ep[s].out /\ ~sock[s].full => "out" \in EventsOf(sock[s], ep[s].out)
  BY DEF EventsOf
<1>5. ASSUME Readable(sock[s]), s \in ready PROVE InSeen(s)'
  <2>1. PICK e \in todo' : e.flow = ep[s].flow /\ e.ev \in {{}, EventsOf(sock[s], ep[s].out)}
    BY <1>3, <1>4, <1>5
  <2>2. e.ev = {} \/ "in" \in e.ev
    BY <1>4, <1>5, <2>1
  <2>3. e.ev # {"out"}
    BY <2>2
  <2> QED BY <1>1, <2>1, <2>3 DEF InSeen
<1>6. ASSUME ep[s].out, ~sock[s].full, s \in ready PROVE OutSeen(s)'
  <2>1. PICK e \in todo' : e.flow = ep[s].flow /\ e.ev \in {{}, EventsOf(sock[s], ep[s].out)}
    BY <1>3, <1>4, <1>6
  <2>2. e.ev = {} \/ "out" \in e.ev
    BY <1>4, <1>6, <2>1
  <2>3. e.ev # {"in"}
    BY <2>2
  <2> QED BY <1>1, <2>1, <2>3 DEF OutSeen
<1> QED BY <1>2, <1>5, <1>6

\* The connections in gone, those of the flows of F, go; nothing happens to the others.
LEMMA ClosedStays ==
    ASSUME TypeInv, Tables, NEW gone \in SUBSET Live, NEW sk, NEW base, ClosedOf(gone, base, sk),
           NEW s \in Peer, ep'[s].on
    PROVE  /\ s \notin Leaving(gone) /\ ep[s].on /\ ep'[s] = ep[s] /\ sock'[s] = sk[s]
           /\ s \in ready => s \in ready'
           /\ \A i \in gone : ep[s].flow # slots[i].flow
<1>1. s \notin Leaving(gone)
  BY DEF ClosedOf, NotWatched
<1>2. ep'[s] = ep[s] /\ sock'[s] = sk[s] /\ (s \in ready => s \in ready')
  BY <1>1 DEF ClosedOf
<1>3. PICK i \in Live : ~slots[i].udp /\ peerOf[i] = s /\ SlotOf(ep[s].flow) = i
  BY <1>2, Registered
<1>4. i \notin gone
  BY <1>1, <1>3 DEF Leaving
<1>5. \A j \in gone : ep[s].flow # slots[j].flow
  BY <1>3, <1>4 DEF Tables, Placed
<1> QED BY <1>1, <1>2, <1>5

\* No step leaves input unseen.
LEMMA InputStep ==
    ASSUME TypeInv, TypeInv', OwnInv, InputSeen, Wait \/ Kinds
    PROVE  InputSeen'
<1> USE DEF OwnInv
<1>1. \A x \in Peer : ep[x].on /\ Readable(sock[x]) => InSeen(x)
  BY DEF InputSeen, InSeen
<1> SUFFICES ASSUME NEW x \in Peer, ep'[x].on, Readable(sock'[x]) PROVE InSeen(x)'
  BY DEF InputSeen, InSeen, Readable
<1> DEFINE none == {}
<1>2. ASSUME ep[x].on, ep'[x].flow = ep[x].flow, x \in ready => x \in ready', Readable(sock[x]),
             InKept({})
      PROVE  InSeen(x)'
  <2>1. InKept(none) /\ ep[x].flow \notin none
    BY <1>2
  <2> HIDE DEF none
  <2> QED BY <1>1, <1>2, <2>1, SeenStays
<1>3. CASE Wait
  <2>1. ep' = ep /\ sock' = sock
    BY <1>3 DEF Wait
  <2> QED BY <1>1, <1>3, <2>1, WaitSees
<1>4. CASE Quiet
  <2>1. ep' = ep /\ sock' = sock /\ ready' = ready /\ InKept({})
    BY <1>4 DEF Quiet, kernVars, EventsStay
  <2> QED BY <1>2, <2>1
<1>5. CASE Closes
  <2>1. PICK F \in SUBSET Nat : Reduced(Gone(F)) /\ ClosedOf(Gone(F), slots, sock) /\ EventsStay(F)
    BY <1>5 DEF Closes
  <2> DEFINE gone == Gone(F)
  <2>2. gone \in SUBSET Live /\ ClosedOf(gone, slots, sock)
    BY <2>1 DEF Gone
  <2>3. \A i \in Live : slots[i].flow \in F => i \in gone
    BY DEF Gone
  <2> HIDE DEF gone
  <2>4. /\ ep[x].on /\ ep'[x] = ep[x] /\ sock'[x] = sock[x] /\ (x \in ready => x \in ready')
        /\ \A i \in gone : ep[x].flow # slots[i].flow
    BY <2>2, ClosedStays
  <2>5. ep[x].flow \notin F
    BY <2>3, <2>4, Registered
  <2>6. InKept(F) /\ InSeen(x)
    BY <1>1, <2>1, <2>4 DEF EventsStay
  <2> QED BY <2>4, <2>5, <2>6, SeenStays
<1>6. CASE Drops
  <2>1. PICK s \in Peer :
           /\ ready' = ready \ {s} /\ EventsStay({})
           /\ \A y \in Peer : /\ sock'[y] = IF y = s THEN GoneSock(sock[y]) ELSE sock[y]
                              /\ ep'[y] = IF y = s THEN NotWatched ELSE ep[y]
    BY <1>6 DEF Drops
  <2>2. x # s
    BY <2>1 DEF NotWatched
  <2> QED BY <1>2, <2>1, <2>2 DEF EventsStay
<1>7. CASE Connects
  <2>1. PICK f \in Nat, d \in Nat, s \in Peer :
           /\ Added(f, d, s) /\ ready \subseteq ready' /\ EventsStay({})
           /\ s \notin Udp /\ Readable(sock'[s]) => s \in ready'
    BY <1>7 DEF Connects
  <2>2. CASE x = s
    <3>1. CASE s \in Udp
      <4>1. ep' = ep /\ sock[s].st # "open"
        BY <2>1, <3>1 DEF Added
      <4> QED BY <2>2, <4>1, NotOpen
    <3>2. CASE s \notin Udp
      BY <2>1, <2>2, <3>2 DEF InSeen
    <3> QED BY <3>1, <3>2
  <2>3. CASE x # s
    <3>1. sock'[x] = sock[x] /\ ep'[x] = ep[x]
      BY <2>1, <2>3 DEF Added
    <3> QED BY <1>2, <2>1, <3>1 DEF EventsStay
  <2> QED BY <2>2, <2>3
<1>8. CASE Reads
  <2>1. PICK i \in Live : /\ \A y \in Peer : Readable(sock'[y]) => Readable(sock[y])
                          /\ ep' = ep /\ ready' = ready
                          /\ InKept({}) \/ (~Readable(sock[peerOf[i]]) /\ InKept({slots[i].flow}))
    BY <1>8 DEF Reads
  <2>2. CASE InKept({})
    BY <1>2, <2>1, <2>2
  <2>3. CASE ~Readable(sock[peerOf[i]]) /\ InKept({slots[i].flow})
    <3> DEFINE F == {slots[i].flow}
    <3>1. InKept(F) /\ Readable(sock[x]) /\ InSeen(x)
      BY <1>1, <2>1, <2>3
    <3>2. ep[x].flow \notin F
      <4>1. PICK j \in Live : peerOf[j] = x /\ SlotOf(ep[x].flow) = j
        BY <2>1, Registered
      <4>2. SlotOf(slots[i].flow) = i
        BY DEF Tables, Placed
      <4> QED BY <2>3, <3>1, <4>1, <4>2
    <3> HIDE DEF F
    <3> QED BY <2>1, <3>1, <3>2, SeenStays
  <2> QED BY <2>1, <2>2, <2>3
<1>9. ASSUME NEW i \in Live, NEW all, NEW o, Sent(i, all, o), InKept({}) PROVE InSeen(x)'
  <2>1. /\ Readable(sock[x]) /\ ready \subseteq ready' /\ Reduced({})
    BY <1>9 DEF Sent
  <2>2. ep[x].on /\ ep'[x].flow = ep[x].flow
    BY <2>1 DEF Reduced, Leaving
  <2> QED BY <1>2, <1>9, <2>1, <2>2
<1>10. CASE Writes
  <2>1. PICK i \in Live : \E o \in SendFromCache(slots[i]) : Sent(i, slots[i].w, o) /\ InKept({})
    BY <1>10 DEF Writes
  <2> QED BY <1>9, <2>1
<1>11. CASE Sends
  <2>1. PICK s \in Peer : \E n \in 1 .. MaxRsp : \E i, o : SentNow(s, n, i, o)
    BY <1>11 DEF Sends
  <2>2. PICK n \in 1 .. MaxRsp : \E i, o : SentNow(s, n, i, o)
    BY <2>1
  <2>3. PICK i, o : SentNow(s, n, i, o)
    BY <2>2
  <2>4. i \in Live /\ EventsStay({}) /\ o.out \in Seq(Unit)
    BY <2>3 DEF SentNow, SentOf
  <2>5. ASSUME NEW base, ClosedOf({i}, base, Pushed(slots[i], o.out, o.w = <<>>)) PROVE InSeen(x)'
    <3> DEFINE gone == {i}
               out == o.out
               done == (o.w = <<>>)
               sk == Pushed(slots[i], out, done)
    <3>1. /\ gone \in SUBSET Live /\ ClosedOf(gone, base, sk) /\ Leaving(gone) = {peerOf[i]}
          /\ sk = Pushed(slots[i], out, done) /\ done \in BOOLEAN /\ out \in Seq(Unit)
      BY <2>4, <2>5 DEF Leaving
    <3> HIDE DEF gone, sk, out, done
    <3>2. \A y \in Peer \ {peerOf[i]} : sk[y] = sock[y]
      BY <2>4, <3>1, PushedEffect
    <3>3. /\ x \notin Leaving(gone) /\ ep[x].on /\ ep'[x] = ep[x] /\ sock'[x] = sk[x]
          /\ x \in ready => x \in ready'
      BY <3>1, ClosedStays
    <3>4. sock'[x] = sock[x]
      BY <3>1, <3>2, <3>3
    <3> QED BY <1>2, <2>4, <3>3, <3>4 DEF EventsStay
  <2>6. CASE Sent(i, slots[i].w \o Data(s, n), o)
    BY <1>9, <2>4, <2>6 DEF EventsStay
  <2>7. \/ \E base : ClosedOf({i}, base, Pushed(slots[i], o.out, o.w = <<>>))
        \/ Sent(i, slots[i].w \o Data(s, n), o)
    BY <2>3 DEF SentNow
  <2> QED BY <2>5, <2>6, <2>7
<1>12. CASE Moves
  <2>1. PICK s \in Peer, k \in SockType, wake \in BOOLEAN :
           /\ Changed(s, k, wake) /\ EventsStay({})
           /\ Readable(k) /\ sock[s].st # "new" => Readable(sock[s]) \/ wake
    BY <1>12 DEF Moves
  <2>2. /\ ep' = ep /\ sock' = [sock EXCEPT ![s] = k] /\ sock \in [Peer -> SockType]
        /\ ready' = IF wake /\ ep[s].on THEN ready \cup {s} ELSE ready
    BY <2>1 DEF Changed, TypeInv, TablesOK
  <2>3. CASE x = s
    <3>1. sock[x].st # "new" /\ Readable(k)
      BY <2>2, <2>3, NotOpen
    <3>2. CASE Readable(sock[x])
      BY <1>2, <2>1, <2>2, <3>2 DEF EventsStay
    <3>3. CASE wake
      BY <2>2, <2>3, <3>3 DEF InSeen
    <3> QED BY <2>1, <2>3, <3>1, <3>2, <3>3
  <2>4. CASE x # s
    <3>1. sock'[x] = sock[x]
      BY <2>2, <2>4
    <3> QED BY <1>2, <2>1, <2>2, <3>1 DEF EventsStay
  <2> QED BY <2>3, <2>4
<1> QED BY <1>3, <1>4, <1>5, <1>6, <1>7, <1>8, <1>10, <1>11, <1>12 DEF Kinds

\* poll, and the loop of recv: when the thread goes back to epoll_wait, every registered
\* socket that has something to read is on the ready list.
THEOREM InputIsSeen ==
    ASSUME ~LateFailure
    PROVE  Spec /\ []NoWrap => []NoInputStranded
<1>1. Init => TypeInv /\ OwnInv /\ InputSeen
  <2>1. ASSUME Init PROVE InputSeen
    <3>1. \A s \in Peer : ~ep[s].on
      BY <2>1 DEF Init, ConnInit, NotWatched
    <3> QED BY <3>1 DEF InputSeen, InSeen
  <2> QED BY <2>1, CoreInit
<1>2. TypeInv /\ OwnInv /\ InputSeen /\ NoWrap /\ [Next]_vars => (TypeInv /\ OwnInv /\ InputSeen)'
  BY CoreStep, StepKinds, InputStep
<1>3. OwnInv /\ InputSeen => NoInputStranded
  BY DEF OwnInv, EventsOK, todo, InputSeen, NoInputStranded, InSeen
<1> QED BY <1>1, <1>2, <1>3, PTL DEF Spec

\* A connection that is left alone stays as it is.
LEMMA OutputKept ==
    ASSUME TypeInv, Tables, OutputSeen, NEW i \in Live, NEW s \in Peer, peerOf[i] = s,
           slots'[i].w = slots[i].w, ep'[s].out = ep[s].out, ep'[s].flow = ep[s].flow,
           sock[s].full => sock'[s].full \/ OutSeen(s)', s \in ready => s \in ready',
           NEW F, OutKept(F), ep[s].flow \notin F
    PROVE  OutOf(i, s)'
<1> SUFFICES ASSUME slots'[i].w # <<>> PROVE ep'[s].out /\ (sock'[s].full \/ OutSeen(s)')
  BY DEF OutOf, OutSeen
<1>1. ep[s].out /\ (sock[s].full \/ OutSeen(s))
  BY DEF OutputSeen, OutOf
<1>2. ep[s].on
  BY DEF Tables, Placed
<1>3. OutSeen(s) => OutSeen(s)'
  BY <1>2, SeenStays
<1> QED BY <1>1, <1>3

\* No connection goes, or comes, and what waits is not touched.
LEMMA OutputStays ==
    ASSUME TypeInv, TypeInv', OwnInv, OutputSeen, Wait \/ Quiet \/ Drops \/ Reads \/ Moves
    PROVE  OutputSeen'
<1> USE DEF OwnInv
<1> DEFINE none == {}
<1>1. \A i \in Live : /\ peerOf[i] \in Peer /\ sock[peerOf[i]].st = "open"
                      /\ slots[i].w # <<>> => ep[peerOf[i]].on
  BY DEF Tables, Placed
<1>2. \A f : f \notin none
  OBVIOUS
<1>3. CASE Wait
  <2>1. Live' = Live /\ peerOf' = peerOf /\ slots' = slots /\ ep' = ep /\ sock' = sock
    BY <1>3, SameSlots DEF Wait, connVars
  <2>2. ASSUME NEW i \in Live, NEW s \in Peer, peerOf[i] = s, slots[i].w # <<>>
        PROVE  ep[s].out /\ (sock[s].full \/ OutSeen(s)')
    <3>1. ep[s].out /\ (sock[s].full \/ OutSeen(s))
      BY <2>2 DEF OutputSeen, OutOf
    <3>2. ep[s].out /\ ~sock[s].full /\ OutSeen(s) => OutSeen(s)'
      BY <1>3, WaitSees
    <3> QED BY <3>1, <3>2
  <2> QED BY <2>1, <2>2 DEF OutputSeen, OutOf
<1>4. CASE Quiet
  <2>1. /\ Live' = Live /\ peerOf' = peerOf /\ slots' = slots /\ ep' = ep /\ sock' = sock
        /\ ready' = ready /\ OutKept(none)
    BY <1>4, SameSlots DEF Quiet, connVars, kernVars, EventsStay
  <2> HIDE DEF none
  <2> SUFFICES ASSUME NEW i \in Live', NEW s \in Peer, peerOf'[i] = s PROVE OutOf(i, s)'
    BY DEF OutputSeen
  <2> QED BY <1>2, <2>1, OutputKept
<1>5. CASE Drops
  <2>1. PICK d \in Peer :
           /\ sock[d].st \in {"new", "queued"} /\ slots' = slots /\ fdtab' = fdtab
           /\ ready' = ready \ {d} /\ EventsStay({})
           /\ \A y \in Peer : /\ sock'[y] = IF y = d THEN GoneSock(sock[y]) ELSE sock[y]
                              /\ ep'[y] = IF y = d THEN NotWatched ELSE ep[y]
    BY <1>5 DEF Drops
  <2>2. Live' = Live /\ peerOf' = peerOf /\ OutKept(none)
    BY <2>1, SameSlots DEF EventsStay
  <2> HIDE DEF none
  <2> SUFFICES ASSUME NEW i \in Live', NEW s \in Peer, peerOf'[i] = s PROVE OutOf(i, s)'
    BY DEF OutputSeen
  <2>3. s # d
    BY <1>1, <2>1, <2>2
  <2> QED BY <1>2, <2>1, <2>2, <2>3, OutputKept
<1>6. CASE Reads
  <2>1. PICK i \in Live, p \in Seq(Peer) :
           /\ Reduced({}) /\ CachesAre(slots', i, p, slots[i].w)
           /\ \A y \in Peer : SameSock(sock[y], sock'[y])
           /\ ep' = ep /\ ready' = ready /\ OutKept(none)
    BY <1>6 DEF Reads
  <2>2. Live' = Live /\ \A j \in Live : peerOf'[j] = peerOf[j]
    BY <2>1, NoneGone
  <2>3. \A j \in Live : slots'[j].w = slots[j].w
    BY <2>1, LiveType DEF CachesAre
  <2>4. \A y \in Peer : sock'[y].full = sock[y].full
    BY <2>1 DEF SameSock
  <2> HIDE DEF none
  <2> SUFFICES ASSUME NEW j \in Live', NEW s \in Peer, peerOf'[j] = s PROVE OutOf(j, s)'
    BY DEF OutputSeen
  <2> QED BY <1>2, <2>1, <2>2, <2>3, <2>4, OutputKept
<1>7. CASE Moves
  <2>1. PICK d \in Peer, k \in SockType, wake \in BOOLEAN :
           /\ Changed(d, k, wake) /\ EventsStay({})
           /\ ~k.full /\ sock[d].full /\ ep[d].out => wake
    BY <1>7 DEF Moves
  <2>2. /\ slots' = slots /\ ep' = ep /\ sock' = [sock EXCEPT ![d] = k] /\ OutKept(none)
        /\ ready' = IF wake /\ ep[d].on THEN ready \cup {d} ELSE ready
    BY <2>1 DEF Changed, connVars, EventsStay
  <2>3. Live' = Live /\ peerOf' = peerOf
    BY <2>1, SameSlots DEF Changed, connVars
  <2>4. sock'[d] = k /\ \A y \in Peer \ {d} : sock'[y] = sock[y]
    BY <2>2 DEF TypeInv, TablesOK
  <2> HIDE DEF none
  <2> SUFFICES ASSUME NEW i \in Live', NEW s \in Peer, peerOf'[i] = s, slots'[i].w # <<>>
               PROVE  OutOf(i, s)'
    BY DEF OutputSeen, OutOf
  <2>5. ep[s].on /\ ep[s].out
    BY <1>1, <2>2, <2>3 DEF OutputSeen, OutOf
  <2>6. sock[s].full => sock'[s].full \/ OutSeen(s)'
    <3>1. CASE s = d /\ ~k.full /\ sock[s].full
      <4>1. s \in ready'
        BY <2>1, <2>2, <2>5, <3>1
      <4> QED BY <4>1 DEF OutSeen
    <3> QED BY <2>4, <3>1
  <2> QED BY <1>2, <2>2, <2>3, <2>6, OutputKept
<1> QED BY <1>3, <1>4, <1>5, <1>6, <1>7

\* A new connection has nothing to send yet.
LEMMA OutputConnects ==
    ASSUME TypeInv, TypeInv', OwnInv, OutputSeen, Connects
    PROVE  OutputSeen'
<1> USE DEF OwnInv
<1> DEFINE none == {}
<1>1. PICK f \in Nat, d \in Nat, s \in Peer :
         Added(f, d, s) /\ ready \subseteq ready' /\ OutKept(none)
  BY DEF Connects, EventsStay
<1>2. /\ Live' = Live \cup {SlotOf(f)} /\ peerOf'[SlotOf(f)] = s
      /\ \A i \in Live : slots'[i] = slots[i] /\ peerOf'[i] = peerOf[i]
  BY <1>1, AddedSlots
<1>3. /\ slots'[SlotOf(f)].w = <<>> /\ sock[s].st # "open"
      /\ \A x \in Peer \ {s} : sock'[x] = sock[x] /\ ep'[x] = ep[x]
  BY <1>1 DEF Added
<1>4. \A y : y \notin none
  OBVIOUS
<1> HIDE DEF none
<1>5. ASSUME NEW i \in Live', NEW x \in Peer, peerOf'[i] = x PROVE OutOf(i, x)'
  <2>1. CASE i = SlotOf(f)
    BY <1>3, <2>1 DEF OutOf
  <2>2. CASE i \in Live
    <3>1. peerOf[i] = x /\ x # s
      BY <1>2, <1>3, <1>5, <2>2, NotOpen
    <3> QED BY <1>1, <1>2, <1>3, <1>4, <2>2, <3>1, OutputKept
  <2> QED BY <1>2, <2>1, <2>2
<1> QED BY <1>5 DEF OutputSeen

\* Connections go, and the others are left alone.
LEMMA OutputCloses ==
    ASSUME TypeInv, TypeInv', OwnInv, OutputSeen, NEW gone \in SUBSET Live, NEW base, NEW sk,
           Reduced(gone), ClosedOf(gone, base, sk),
           \A i \in Live \ gone : slots'[i] = slots[i],
           \A x \in Peer \ Leaving(gone) : sk[x] = sock[x],
           NEW F, OutKept(F), \A i \in Live : slots[i].flow \in F => i \in gone
    PROVE  OutputSeen'
<1> USE DEF OwnInv
<1>1. Live' = Live \ gone /\ \A i \in Live \ gone : peerOf'[i] = peerOf[i]
  BY ReducedSlots
<1> SUFFICES ASSUME NEW i \in Live \ gone, NEW s \in Peer, peerOf[i] = s PROVE OutOf(i, s)'
  BY <1>1 DEF OutputSeen
<1>2. s \notin Leaving(gone)
  BY DEF Leaving, Tables, OwnPeer
<1>3. ep'[s] = ep[s] /\ sock'[s] = sock[s] /\ (s \in ready => s \in ready')
  BY <1>2 DEF ClosedOf
<1>4. CASE slots[i].w = <<>>
  BY <1>4 DEF OutOf
<1>5. CASE slots[i].w # <<>>
  <2>1. ep[s].flow = slots[i].flow
    BY <1>5 DEF Tables, Placed
  <2>2. ep[s].flow \notin F
    BY <2>1
  <2> QED BY <1>3, <2>2, OutputKept
<1> QED BY <1>4, <1>5

\* The connection of i is sent to: what is left waits for the socket, which is full.
LEMMA OutputSent ==
    ASSUME TypeInv, TypeInv', OwnInv, OutputSeen, NEW i \in Live, NEW all, NEW o, Sent(i, all, o),
           o.w # <<>> => ep'[peerOf[i]].out, OutKept({slots[i].flow})
    PROVE  OutputSeen'
<1> USE DEF OwnInv
<1> DEFINE F == {slots[i].flow}
<1>1. /\ Reduced({}) /\ CachesAre(slots', i, slots[i].r, o.w) /\ ready \subseteq ready'
      /\ o.w # <<>> => sock'[peerOf[i]].full
      /\ \A x \in Peer \ {peerOf[i]} : sock'[x] = sock[x] /\ ep'[x] = ep[x]
      /\ OutKept(F)
  BY DEF Sent
<1>2. Live' = Live /\ \A j \in Live : peerOf'[j] = peerOf[j]
  BY <1>1, NoneGone
<1>3. slots'[i].w = o.w /\ \A j \in Live \ {i} : slots'[j] = slots[j]
  BY <1>1, LiveType DEF CachesAre
<1> SUFFICES ASSUME NEW j \in Live, NEW s \in Peer, peerOf[j] = s PROVE OutOf(j, s)'
  BY <1>2 DEF OutputSeen
<1>4. CASE j = i
  BY <1>1, <1>3, <1>4 DEF OutOf
<1>5. CASE j # i
  <2>1. s # peerOf[i]
    BY <1>5 DEF Tables, OwnPeer
  <2>2. sock'[s] = sock[s] /\ ep'[s] = ep[s] /\ slots'[j] = slots[j]
    BY <1>1, <1>3, <1>5, <2>1
  <2>3. CASE slots[j].w = <<>>
    BY <2>2, <2>3 DEF OutOf
  <2>4. CASE slots[j].w # <<>>
    <3>1. ep[s].flow = slots[j].flow /\ SlotOf(slots[j].flow) = j /\ SlotOf(slots[i].flow) = i
      BY <2>4 DEF Tables, Placed
    <3>2. ep[s].flow \notin F
      BY <1>5, <3>1
    <3> HIDE DEF F
    <3> QED BY <1>1, <2>2, <3>2, OutputKept
  <2> QED BY <2>3, <2>4
<1> QED BY <1>4, <1>5

\* No step leaves output unseen.
LEMMA OutputStep ==
    ASSUME TypeInv, TypeInv', OwnInv, OutputSeen, Wait \/ Kinds
    PROVE  OutputSeen'
<1> USE DEF OwnInv
<1>1. CASE Closes
  <2>1. PICK F \in SUBSET Nat : Reduced(Gone(F)) /\ ClosedOf(Gone(F), slots, sock) /\ EventsStay(F)
    BY <1>1 DEF Closes
  <2> DEFINE gone == Gone(F)
  <2>2. gone \in SUBSET Live /\ Reduced(gone) /\ ClosedOf(gone, slots, sock) /\ OutKept(F)
    BY <2>1 DEF Gone, EventsStay
  <2>3. \A i \in Live : slots[i].flow \in F => i \in gone
    BY DEF Gone
  <2> HIDE DEF gone
  <2>4. \A i \in Live \ gone : slots'[i] = slots[i]
    BY <2>2, LiveType DEF ClosedOf
  <2> QED BY <2>2, <2>3, <2>4, OutputCloses
<1>2. CASE Writes
  <2>1. PICK i \in Live : \E o \in SendFromCache(slots[i]) :
           /\ Sent(i, slots[i].w, o) /\ OutKept({slots[i].flow})
           /\ o.w # <<>> => slots[i].w # <<>> /\ ep' = ep
    BY <1>2 DEF Writes
  <2>2. PICK o : /\ Sent(i, slots[i].w, o) /\ OutKept({slots[i].flow})
                 /\ o.w # <<>> => slots[i].w # <<>> /\ ep' = ep
    BY <2>1
  <2>3. o.w # <<>> => ep'[peerOf[i]].out
    BY <2>2 DEF OutputSeen, OutOf, Tables, Placed
  <2> QED BY <2>2, <2>3, OutputSent
<1>3. CASE Sends
  <2>1. PICK s \in Peer : \E n \in 1 .. MaxRsp : \E i, o : SentNow(s, n, i, o)
    BY <1>3 DEF Sends
  <2>2. PICK n \in 1 .. MaxRsp : \E i, o : SentNow(s, n, i, o)
    BY <2>1
  <2>3. PICK i, o : SentNow(s, n, i, o)
    BY <2>2
  <2>4. i \in Live /\ EventsStay({}) /\ o.out \in Seq(Unit)
    BY <2>3 DEF SentNow, SentOf
  <2>5. ASSUME NEW base, Reduced({i}), ClosedOf({i}, base, Pushed(slots[i], o.out, o.w = <<>>)),
               CachesAre(base, i, slots[i].r, o.w)
        PROVE  OutputSeen'
    <3> DEFINE gone == {i}
               out == o.out
               done == (o.w = <<>>)
               sk == Pushed(slots[i], out, done)
               none == {}
    <3>1. /\ gone \in SUBSET Live /\ ClosedOf(gone, base, sk) /\ Leaving(gone) = {peerOf[i]}
          /\ sk = Pushed(slots[i], out, done) /\ done \in BOOLEAN /\ out \in Seq(Unit)
          /\ Reduced(gone) /\ OutKept(none)
          /\ \A j \in Live : slots[j].flow \in none => j \in gone
      BY <2>4, <2>5 DEF Leaving, EventsStay
    <3>2. \A j \in Live \ gone : slots'[j] = slots[j]
      BY <2>5, LiveType DEF ClosedOf, CachesAre
    <3> HIDE DEF gone, sk, out, done, none
    <3>3. \A y \in Peer \ {peerOf[i]} : sk[y] = sock[y]
      BY <2>4, <3>1, PushedEffect
    <3>4. \A y \in Peer \ Leaving(gone) : sk[y] = sock[y]
      BY <3>1, <3>3
    <3> QED BY <3>1, <3>2, <3>4, OutputCloses
  <2>6. ASSUME Sent(i, slots[i].w \o Data(s, n), o), o.w # <<>> => ep'[peerOf[i]].out
        PROVE  OutputSeen'
    <3> DEFINE all == slots[i].w \o Data(s, n)
    <3>1. Sent(i, all, o) /\ OutKept({slots[i].flow})
      BY <2>4, <2>6 DEF EventsStay, OutKept
    <3> HIDE DEF all
    <3> QED BY <2>4, <2>6, <3>1, OutputSent
  <2>7. \/ \E base : /\ Reduced({i})
                     /\ ClosedOf({i}, base, Pushed(slots[i], o.out, o.w = <<>>))
                     /\ CachesAre(base, i, slots[i].r, o.w)
        \/ Sent(i, slots[i].w \o Data(s, n), o) /\ (o.w # <<>> => ep'[peerOf[i]].out)
    BY <2>3 DEF SentNow
  <2> QED BY <2>5, <2>6, <2>7
<1> QED BY <1>1, <1>2, <1>3, OutputStays, OutputConnects DEF Kinds

\* send, sendto and sendfromcache: while something waits in a write cache, the connection is
\* registered for EPOLLOUT and the event is still to come, or is being dealt with.
THEOREM OutputIsSeen ==
    ASSUME ~LateFailure
    PROVE  Spec /\ []NoWrap => []NoOutputStranded
<1>1. Init => TypeInv /\ OwnInv /\ OutputSeen
  <2>1. ASSUME Init PROVE OutputSeen
    <3>1. \A i \in Slot : slots[i].flow = 0
      BY <2>1 DEF Init, ConnInit, FreeSlot
    <3> QED BY <3>1 DEF OutputSeen, Live
  <2> QED BY <2>1, CoreInit
<1>2. TypeInv /\ OwnInv /\ OutputSeen /\ NoWrap /\ [Next]_vars => (TypeInv /\ OwnInv /\ OutputSeen)'
  BY CoreStep, StepKinds, OutputStep
<1>3. OwnInv /\ OutputSeen => NoOutputStranded
  <2> SUFFICES ASSUME OwnInv, OutputSeen, NEW i \in Slot, slots[i].flow # 0, slots[i].w # <<>>
               PROVE  LET s == Target(slots[i])
                      IN  /\ s # NoSock /\ ep[s].out
                          /\ \/ sock[s].full \/ s \in ready
                             \/ \E e \in batch \cup ({cur} \ {None}) :
                                  e.kind = "conn" /\ e.flow = slots[i].flow /\ e.ev # {"in"}
    BY DEF NoOutputStranded
  <2>1. i \in Live /\ peerOf[i] = Target(slots[i])
    BY DEF Live, peerOf
  <2>2. peerOf[i] \in Peer /\ ep[peerOf[i]].flow = slots[i].flow
    BY <2>1 DEF OwnInv, Tables, Placed
  <2>3. ep[peerOf[i]].out /\ (sock[peerOf[i]].full \/ OutSeen(peerOf[i]))
    BY <2>1, <2>2 DEF OutputSeen, OutOf
  <2> QED BY <2>1, <2>2, <2>3, PeerAssumption DEF OutSeen, todo
<1> QED BY <1>1, <1>2, <1>3, PTL DEF Spec
=============================================================================
