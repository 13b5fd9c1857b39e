----------------------------- MODULE ShmMQProofs -----------------------------
(***************************************************************************)
(* Proofs about ShmMQ for every number of processes, every block and       *)
(* header size and every set of messages that carry at least one byte.     *)
(* The header-only message is left out because the theorems fail for it:   *)
(* enqueue() and dequeue_i() disagree on the position that follows one     *)
(* whose header ends at the last byte of the block.                        *)
(***************************************************************************)
EXTENDS ShmMQ, SequenceTheorems, TLAPS

\* Every message carries data or extension data.
NonEmpty == \A m \in Msg : DataLen(m) >= 1

(***************************************************************************)
(* The inductive invariant.                                                *)
(***************************************************************************)

\* Only one process of a role is inside a call.
Exclusion ==
    /\ \A p \in Producers : pc[p] # "idle" /\ "producer" \in LockType
                                => mutex["producer"] = p
    /\ \A c \in Consumers : pc[c] # "idle" /\ "consumer" \in LockType
                                => mutex["consumer"] = c

\* The bytes from head to position a, and up to the end of pending message n.
Dist(a) == StatUsedLen(head, a)
EndOf(n) == Dist(q[n].at) + TotalLen(q[n].msg)

\* The pending messages lie end to end between head and tail, which never make
\* a full turn.
Chain ==
    /\ Dist(tail) < BlockSize
    /\ tail = 0 => head = 0
    /\ q = << >> => head = tail
    /\ q # << >> => q[1].at = head /\ tail # 0
    /\ \A n \in 1 .. Len(q) : EndOf(n) <= Dist(tail)
    /\ \A n \in 1 .. Len(q) :
        (IF n = Len(q) THEN tail ELSE q[n + 1].at)
            = NewTail(q[n].at, q[n].at, q[n].msg)
    /\ \A m, n \in 1 .. Len(q) : m < n => EndOf(m) <= Dist(q[n].at)

\* A producer past its check has room behind the tail, and what it has copied
\* so far is there.
ProducerAt(p) ==
    /\ pc[p] \in {"load", "copy_head", "copy_data", "publish"} => blob[p] \in Msg
    /\ pc[p] \in {"copy_head", "copy_data", "publish"} =>
        /\ reg[p].tail = tail
        /\ Dist(tail) + TotalLen(blob[p]) < BlockSize
    /\ pc[p] = "copy_data" => Holds(tail, blob[p], 0, HeadSize)
    /\ pc[p] = "publish" => Holds(tail, blob[p], 0, TotalLen(blob[p]))

\* A consumer past its check is looking at the first pending message.
ConsumerAt(c) ==
    /\ pc[c] # "aborted"
    /\ pc[c] \in {"read_head", "read_data", "release"} =>
        /\ reg[c].head = head
        /\ q # << >>
        /\ TotalLen(q[1].msg) <= UsedLen(head, reg[c].tail)
    /\ pc[c] \in {"read_data", "release"} => blob[c] = q[1].msg

IInv ==
    /\ TypeOK
    /\ Exclusion
    /\ Chain
    /\ PendingIntact
    /\ \A p \in Producers : ProducerAt(p)
    /\ \A c \in Consumers : ConsumerAt(c)
------------------------------------------------------------------------------
(* Lemmas on positions. They are linear arithmetic over the case splits of *)
(* the code.                                                               *)

\* The lengths of a message.
LEMMA Lengths ==
    ASSUME NEW m \in Msg
    PROVE  /\ DataLen(m) \in Nat
           /\ TotalLen(m) \in Nat
           /\ TotalLen(m) = HeadSize + DataLen(m)
           /\ HeadSize <= TotalLen(m)
  BY SizeAssumption, MsgAssumption DEF DataLen, TotalLen

\* The used part of the ring has a length.
LEMMA UsedIsNat ==
    ASSUME NEW h \in 0 .. BlockSize, NEW a \in 0 .. BlockSize
    PROVE  StatUsedLen(h, a) \in Nat
  BY SizeAssumption DEF StatUsedLen

\* Where enqueue() leaves the tail after a message is where dequeue_i() leaves
\* the head after it, unless the message is only a header.
LEMMA HeadFollowsTail ==
    ASSUME NEW h \in 0 .. BlockSize, NEW m, DataLen(m) \in Nat,
           DataLen(m) >= 1, TotalLen(m) < BlockSize
    PROVE  /\ NewHead(h, m) = NewTail(h, h, m)
           /\ NewTail(h, h, m) \in 1 .. BlockSize
  BY SizeAssumption DEF NewHead, NewTail, DataPos, TotalLen

\* Publishing a message makes the used part longer by its length.
LEMMA TailAdvance ==
    ASSUME NEW h \in 0 .. BlockSize, NEW t \in 0 .. BlockSize,
           NEW m, DataLen(m) \in Nat,
           StatUsedLen(h, t) + TotalLen(m) < BlockSize
    PROVE  /\ NewTail(t, t, m) \in 1 .. BlockSize
           /\ StatUsedLen(h, NewTail(t, t, m)) = StatUsedLen(h, t) + TotalLen(m)
  BY SizeAssumption DEF NewTail, StatUsedLen, TotalLen

\* Taking a message brings everything behind it nearer by its length.
LEMMA HeadAdvance ==
    ASSUME NEW h \in 0 .. BlockSize, NEW a \in 0 .. BlockSize,
           NEW m, DataLen(m) \in Nat,
           TotalLen(m) <= StatUsedLen(h, a), StatUsedLen(h, a) < BlockSize
    PROVE  StatUsedLen(NewTail(h, h, m), a) = StatUsedLen(h, a) - TotalLen(m)
  BY SizeAssumption DEF NewTail, StatUsedLen, TotalLen

\* An offset counted from a position is the offset counted from head, less the
\* distance of the position, around the ring.
LEMMA OffsetShift ==
    ASSUME NEW h \in 0 .. BlockSize, NEW a \in 0 .. BlockSize, NEW i \in Cells,
           StatUsedLen(h, a) < BlockSize
    PROVE  /\ Offset(a, i) \in Cells
           /\ StatUsedLen(h, a) \in Nat
           /\ Offset(h, i) = IF StatUsedLen(h, a) + Offset(a, i) < BlockSize
                             THEN StatUsedLen(h, a) + Offset(a, i)
                             ELSE StatUsedLen(h, a) + Offset(a, i) - BlockSize
  BY SizeAssumption DEF Offset, StatUsedLen, Cells

\* Byte j of the data is byte HeadSize + j of the image.
LEMMA DataOffset ==
    ASSUME NEW h \in 0 .. BlockSize, NEW i \in Cells, NEW n \in Nat,
           HeadSize + n < BlockSize, Offset(DataPos(h), i) < n
    PROVE  /\ Offset(h, i) = HeadSize + Offset(DataPos(h), i)
           /\ Offset(h, i) < HeadSize + n
  BY SizeAssumption DEF Offset, DataPos, Cells

\* Some cell holds the first byte of an image.
LEMMA FirstCell ==
    ASSUME NEW h \in 0 .. BlockSize
    PROVE  \E i \in Cells : Offset(h, i) = 0
<1>1. CASE h = BlockSize
  <2>1. 0 \in Cells /\ Offset(h, 0) = 0
    BY <1>1, SizeAssumption DEF Offset, Cells
  <2> QED BY <2>1
<1>2. CASE h # BlockSize
  <2>1. h \in Cells /\ Offset(h, h) = 0
    BY <1>2, SizeAssumption DEF Offset, Cells
  <2> QED BY <2>1
<1> QED BY <1>1, <1>2

------------------------------------------------------------------------------
(* Facts that several steps need.                                          *)

\* Two producers, or two consumers, are never inside a call at once.
LEMMA OneAtATime ==
    ASSUME Exclusion
    PROVE  /\ \A p, r \in Producers : pc[p] # "idle" /\ pc[r] # "idle" => p = r
           /\ \A c, d \in Consumers : pc[c] # "idle" /\ pc[d] # "idle" => c = d
  BY RoleAssumption DEF Exclusion

\* A step that leaves the ring alone leaves the facts about it alone.
LEMMA RingFrame ==
    ASSUME Chain, PendingIntact, UNCHANGED <<shared, q>>
    PROVE  Chain' /\ PendingIntact'
<1> USE DEF shared
<1>1. Chain'
  BY DEF Chain, Dist, EndOf
<1>2. PendingIntact'
  BY DEF PendingIntact, Holds
<1> QED BY <1>1, <1>2

\* The same for a process that does not move.
LEMMA ProducerFrame ==
    ASSUME NEW p \in Producers, ProducerAt(p), UNCHANGED shared,
           pc'[p] = pc[p], reg'[p] = reg[p], blob'[p] = blob[p]
    PROVE  ProducerAt(p)'
  BY DEF ProducerAt, Dist, Holds, shared

\* The same for a consumer that does not move.
LEMMA ConsumerFrame ==
    ASSUME NEW c \in Consumers, ConsumerAt(c), UNCHANGED <<head, q>>,
           pc'[c] = pc[c], reg'[c] = reg[c], blob'[c] = blob[c]
    PROVE  ConsumerAt(c)'
  BY DEF ConsumerAt

\* The first pending message, when there is one.
LEMMA FirstPending ==
    ASSUME TypeOK, Chain, q # << >>
    PROVE  /\ q[1].msg \in Msg
           /\ q[1].at = head
           /\ 1 \in 1 .. Len(q)
           /\ Dist(head) = 0
           /\ TotalLen(q[1].msg) <= Dist(tail)
           /\ TotalLen(q[1].msg) < BlockSize
           /\ head # tail
<1>1. Len(q) \in Nat /\ 1 \in 1 .. Len(q)
  <2>1. q \in Seq([msg : Msg, at : 0 .. BlockSize])
    BY DEF TypeOK
  <2> QED BY <2>1, EmptySeq
<1>2. q[1] \in [msg : Msg, at : 0 .. BlockSize]
  <2>1. q \in Seq([msg : Msg, at : 0 .. BlockSize])
    BY DEF TypeOK
  <2> QED BY <1>1, <2>1, ElementOfSeq
<1>3. Dist(head) = 0
  BY SizeAssumption DEF Dist, StatUsedLen, TypeOK
<1>4. q[1].at = head
  BY DEF Chain
<1>5. EndOf(1) <= Dist(tail) /\ Dist(tail) < BlockSize
  BY <1>1 DEF Chain
<1>6. TotalLen(q[1].msg) \in Nat /\ TotalLen(q[1].msg) >= HeadSize
  BY <1>2, Lengths, SizeAssumption
<1>7. TotalLen(q[1].msg) <= Dist(tail)
  BY <1>3, <1>4, <1>5, <1>6 DEF EndOf
<1>8. Dist(tail) \in Int
  BY SizeAssumption DEF Dist, StatUsedLen, TypeOK
<1>9. head # tail
  BY <1>3, <1>6, <1>7, SizeAssumption
<1> QED BY <1>1, <1>2, <1>3, <1>4, <1>5, <1>6, <1>7, <1>8, <1>9, SizeAssumption

------------------------------------------------------------------------------
(* One lemma per action: it preserves the invariant.                       *)

\* Taking the lock and the message to send keeps the invariant.
LEMMA ProduceStep ==
    ASSUME IInv, NEW p \in Producers, Produce(p)
    PROVE  IInv'
<1> USE DEF Produce, Goto, IInv
<1>1. TypeOK'
  BY RoleAssumption DEF TypeOK, Lock, shared, Procs, Roles, ProducerPCs
<1>2. Exclusion'
  BY OneAtATime, RoleAssumption DEF Exclusion, Lock, TypeOK, Procs, Roles
<1>3. Chain' /\ PendingIntact'
  BY RingFrame DEF shared
<1>4. ASSUME NEW r \in Producers PROVE ProducerAt(r)'
  <2>1. CASE r = p
    BY <2>1 DEF ProducerAt, TypeOK, Procs
  <2>2. CASE r # p
    BY <2>2, ProducerFrame DEF TypeOK, Procs
  <2> QED BY <2>1, <2>2
<1>5. ASSUME NEW c \in Consumers PROVE ConsumerAt(c)'
  BY ConsumerFrame, RoleAssumption DEF shared, TypeOK, Procs
<1> QED BY <1>1, <1>2, <1>3, <1>4, <1>5

\* Giving up on a full ring keeps the invariant.
LEMMA EnqFullStep ==
    ASSUME IInv, NEW p \in Producers, EnqFull(p)
    PROVE  IInv'
<1> USE DEF EnqFull, Goto, IInv
<1>1. TypeOK'
  BY RoleAssumption DEF TypeOK, shared, Procs, Roles, ProducerPCs
<1>2. Exclusion'
  BY OneAtATime, RoleAssumption DEF Exclusion, TypeOK, Procs, Roles
<1>3. Chain' /\ PendingIntact'
  BY RingFrame DEF shared
<1>4. ASSUME NEW r \in Producers PROVE ProducerAt(r)'
  <2>1. CASE r = p
    BY <2>1 DEF ProducerAt, TypeOK, Procs
  <2>2. CASE r # p
    BY <2>2, ProducerFrame DEF TypeOK, Procs
  <2> QED BY <2>1, <2>2
<1>5. ASSUME NEW c \in Consumers PROVE ConsumerAt(c)'
  BY ConsumerFrame, RoleAssumption DEF shared, TypeOK, Procs
<1> QED BY <1>1, <1>2, <1>3, <1>4, <1>5

\* A producer that finds free_len > total_len has room behind the tail.
LEMMA EnqLoadStep ==
    ASSUME IInv, NEW p \in Producers, EnqLoad(p)
    PROVE  IInv'
<1> USE DEF EnqLoad, Goto, IInv
<1>1. TypeOK'
  BY RoleAssumption DEF TypeOK, shared, Procs, Roles, ProducerPCs
<1>2. Exclusion'
  BY OneAtATime, RoleAssumption DEF Exclusion, TypeOK, Procs, Roles
<1>3. Chain' /\ PendingIntact'
  BY RingFrame DEF shared
<1>4. ASSUME NEW r \in Producers PROVE ProducerAt(r)'
  <2>1. CASE r = p
    <3>1. blob[p] \in Msg
      BY DEF ProducerAt
    <3>2. Dist(tail) + TotalLen(blob[p]) < BlockSize
      <4>1. head \in 0 .. BlockSize /\ tail \in 0 .. BlockSize
        BY DEF TypeOK
      <4>2. FreeLen(head, tail) = BlockSize - Dist(tail) /\ Dist(tail) \in Int
        BY <4>1, SizeAssumption DEF FreeLen, Dist, StatUsedLen
      <4> QED BY <3>1, <4>2, Lengths, SizeAssumption
    <3> QED BY <2>1, <3>1, <3>2 DEF ProducerAt, TypeOK, Procs, Dist, shared
  <2>2. CASE r # p
    BY <2>2, ProducerFrame DEF TypeOK, Procs
  <2> QED BY <2>1, <2>2
<1>5. ASSUME NEW c \in Consumers PROVE ConsumerAt(c)'
  BY ConsumerFrame, RoleAssumption DEF shared, TypeOK, Procs
<1> QED BY <1>1, <1>2, <1>3, <1>4, <1>5

\* Taking the consumer's lock keeps the invariant.
LEMMA ComsumeStep ==
    ASSUME IInv, NEW c \in Consumers, Comsume(c)
    PROVE  IInv'
<1> USE DEF Comsume, Goto, IInv
<1>1. TypeOK'
  <2>1. mutex' \in [Roles -> Procs \cup {NoOne}]
    BY DEF TypeOK, Lock, Procs, Roles
  <2> QED BY <2>1, RoleAssumption DEF TypeOK, shared, Procs, ConsumerPCs
<1>2. Exclusion'
  BY OneAtATime, RoleAssumption DEF Exclusion, TypeOK, Procs, Roles, Lock
<1>3. Chain' /\ PendingIntact'
  BY RingFrame DEF shared
<1>4. ASSUME NEW p \in Producers PROVE ProducerAt(p)'
  BY ProducerFrame, RoleAssumption DEF TypeOK, Procs
<1>5. ASSUME NEW d \in Consumers PROVE ConsumerAt(d)'
  <2>1. CASE d = c
    BY <2>1 DEF ConsumerAt, TypeOK, Procs
  <2>2. CASE d # c
    BY <2>2, ConsumerFrame DEF shared, TypeOK, Procs
  <2> QED BY <2>1, <2>2
<1> QED BY <1>1, <1>2, <1>3, <1>4, <1>5

\* Giving up on an empty ring keeps the invariant.
LEMMA DeqEmptyStep ==
    ASSUME IInv, NEW c \in Consumers, DeqEmpty(c)
    PROVE  IInv'
<1> USE DEF DeqEmpty, Goto, IInv
<1>1. TypeOK'
  BY RoleAssumption DEF TypeOK, shared, Procs, Roles, ConsumerPCs
<1>2. Exclusion'
  BY OneAtATime, RoleAssumption DEF Exclusion, TypeOK, Procs, Roles
<1>3. Chain' /\ PendingIntact'
  BY RingFrame DEF shared
<1>4. ASSUME NEW p \in Producers PROVE ProducerAt(p)'
  BY ProducerFrame, RoleAssumption DEF TypeOK, Procs
<1>5. ASSUME NEW d \in Consumers PROVE ConsumerAt(d)'
  <2>1. CASE d = c
    BY <2>1 DEF ConsumerAt, TypeOK, Procs
  <2>2. CASE d # c
    BY <2>2, ConsumerFrame DEF shared, TypeOK, Procs
  <2> QED BY <2>1, <2>2
<1> QED BY <1>1, <1>2, <1>3, <1>4, <1>5

\* A consumer that finds head # tail has a whole message in front of it.
LEMMA DeqLoadStep ==
    ASSUME IInv, NEW c \in Consumers, DeqLoad(c)
    PROVE  IInv'
<1> USE DEF DeqLoad, Goto, IInv
<1>1. TypeOK'
  BY RoleAssumption DEF TypeOK, shared, Procs, Roles, ConsumerPCs
<1>2. Exclusion'
  BY OneAtATime, RoleAssumption DEF Exclusion, TypeOK, Procs, Roles
<1>3. Chain' /\ PendingIntact'
  BY RingFrame DEF shared
<1>4. ASSUME NEW p \in Producers PROVE ProducerAt(p)'
  BY ProducerFrame, RoleAssumption DEF TypeOK, Procs
<1>5. ASSUME NEW d \in Consumers PROVE ConsumerAt(d)'
  <2>1. CASE d = c
    <3>1. q # << >>
      BY DEF Chain
    <3>2. TotalLen(q[1].msg) <= UsedLen(head, tail)
      BY <3>1, FirstPending, SizeAssumption DEF Dist, StatUsedLen, UsedLen, TypeOK
    <3> QED BY <2>1, <3>1, <3>2 DEF ConsumerAt, TypeOK, Procs, shared
  <2>2. CASE d # c
    BY <2>2, ConsumerFrame DEF shared, TypeOK, Procs
  <2> QED BY <2>1, <2>2
<1> QED BY <1>1, <1>2, <1>3, <1>4, <1>5

\* A producer that returns releases its lock and forgets its locals.
LEMMA ProducerUnlockStep ==
    ASSUME IInv, NEW p \in Producers, Unlock("producer", p)
    PROVE  IInv'
<1> USE DEF Unlock, Goto, IInv
<1>1. TypeOK'
  BY RoleAssumption, SizeAssumption DEF TypeOK, shared, Procs, Roles, ProducerPCs
<1>2. Exclusion'
  BY OneAtATime, RoleAssumption DEF Exclusion, TypeOK, Procs, Roles
<1>3. Chain' /\ PendingIntact'
  BY RingFrame DEF shared
<1>4. ASSUME NEW r \in Producers PROVE ProducerAt(r)'
  <2>1. CASE r = p
    BY <2>1 DEF ProducerAt, TypeOK, Procs
  <2>2. CASE r # p
    BY <2>2, ProducerFrame DEF TypeOK, Procs, shared
  <2> QED BY <2>1, <2>2
<1>5. ASSUME NEW c \in Consumers PROVE ConsumerAt(c)'
  BY ConsumerFrame, RoleAssumption DEF shared, TypeOK, Procs
<1> QED BY <1>1, <1>2, <1>3, <1>4, <1>5

\* A consumer that returns releases its lock and forgets its locals.
LEMMA ConsumerUnlockStep ==
    ASSUME IInv, NEW c \in Consumers, Unlock("consumer", c)
    PROVE  IInv'
<1> USE DEF Unlock, Goto, IInv
<1>1. TypeOK'
  BY RoleAssumption, SizeAssumption DEF TypeOK, shared, Procs, Roles, ConsumerPCs
<1>2. Exclusion'
  BY OneAtATime, RoleAssumption DEF Exclusion, TypeOK, Procs, Roles
<1>3. Chain' /\ PendingIntact'
  BY RingFrame DEF shared
<1>4. ASSUME NEW r \in Consumers PROVE ConsumerAt(r)'
  <2>1. CASE r = c
    BY <2>1 DEF ConsumerAt, TypeOK, Procs
  <2>2. CASE r # c
    BY <2>2, ConsumerFrame DEF TypeOK, Procs, shared
  <2> QED BY <2>1, <2>2
<1>5. ASSUME NEW p \in Producers PROVE ProducerAt(p)'
  BY ProducerFrame, RoleAssumption DEF shared, TypeOK, Procs
<1> QED BY <1>1, <1>2, <1>3, <1>4, <1>5

\* A process that disappears in a call forgets its locals; the lock it may hold stays.
LEMMA ForgetStep ==
    ASSUME IInv, NEW p \in Procs, Goto(p, "idle"),
           reg' = [reg EXCEPT ![p] = [head |-> 0, tail |-> 0]],
           blob' = [blob EXCEPT ![p] = Nil], UNCHANGED <<shared, mutex, q, got>>
    PROVE  IInv'
<1> USE DEF Goto, IInv
<1>1. TypeOK'
  BY RoleAssumption, SizeAssumption DEF TypeOK, shared, Procs, Roles, ProducerPCs, ConsumerPCs
<1>2. Exclusion'
  BY RoleAssumption DEF Exclusion, TypeOK, Procs, Roles
<1>3. Chain' /\ PendingIntact'
  BY RingFrame DEF shared
<1>4. ASSUME NEW r \in Producers PROVE ProducerAt(r)'
  <2>1. CASE r = p
    BY <2>1 DEF ProducerAt, TypeOK, Procs
  <2>2. CASE r # p
    BY <2>2, ProducerFrame DEF TypeOK, Procs, shared
  <2> QED BY <2>1, <2>2
<1>5. ASSUME NEW c \in Consumers PROVE ConsumerAt(c)'
  <2>1. CASE c = p
    BY <2>1 DEF ConsumerAt, TypeOK, Procs
  <2>2. CASE c # p
    BY <2>2, ConsumerFrame DEF TypeOK, Procs, shared
  <2> QED BY <2>1, <2>2
<1> QED BY <1>1, <1>2, <1>3, <1>4, <1>5

\* A lock that is made free while nobody of its role is in a call.
LEMMA FreeStep ==
    ASSUME IInv, NEW r \in Roles, mutex' = [mutex EXCEPT ![r] = NoOne],
           UNCHANGED <<shared, pc, reg, blob, q, got>>,
           r = "producer" => \A p \in Producers : pc[p] = "idle",
           r = "consumer" => \A c \in Consumers : pc[c] = "idle"
    PROVE  IInv'
<1> USE DEF IInv
<1>1. TypeOK'
  BY DEF TypeOK, shared, Roles
<1>2. Exclusion'
  BY DEF Exclusion, TypeOK, Roles
<1>3. Chain' /\ PendingIntact'
  BY RingFrame DEF shared
<1>4. \A p \in Producers : ProducerAt(p)'
  BY ProducerFrame DEF shared
<1>5. \A c \in Consumers : ConsumerAt(c)'
  BY ConsumerFrame DEF shared
<1> QED BY <1>1, <1>2, <1>3, <1>4, <1>5

\* The header at head decodes to the first pending message and to nothing else.
LEMMA HeadDecodes ==
    ASSUME TypeOK, Chain, PendingIntact, q # << >>, NEW m \in Heads(head)
    PROVE  m = q[1].msg
<1> DEFINE f == q[1].msg
<1>1. f \in Msg /\ q[1].at = head /\ 1 \in 1 .. Len(q) /\ head \in 0 .. BlockSize
  BY FirstPending DEF TypeOK
<1>2. Holds(head, f, 0, TotalLen(f))
  BY <1>1 DEF PendingIntact
<1>3. TotalLen(f) \in Nat /\ HeadSize <= TotalLen(f) /\ HeadSize \in Nat \ {0}
  BY <1>1, Lengths, SizeAssumption
<1>4. Holds(head, f, 0, HeadSize)
  <2>1. \A i \in Cells : Offset(head, i) \in Int
    BY <1>1, SizeAssumption DEF Offset, Cells
  <2> QED BY <1>2, <1>3, <2>1 DEF Holds
<1>5. m \in Msg /\ Holds(head, m, 0, HeadSize)
  BY <1>1, <1>4 DEF Heads
<1>6. PICK i \in Cells : Offset(head, i) = 0
  BY <1>1, FirstCell
<1>7. block[i] = <<m, 0>> /\ block[i] = <<f, 0>>
  BY <1>3, <1>4, <1>5, <1>6 DEF Holds
<1> QED BY <1>7

\* The lengths read from the header pass dequeue_i()'s assertion.
LEMMA DeqReadHeadStep ==
    ASSUME IInv, NEW c \in Consumers, DeqReadHead(c)
    PROVE  IInv'
<1> USE DEF IInv
<1>1. /\ q # << >> /\ reg[c].head = head
      /\ TotalLen(q[1].msg) <= UsedLen(head, reg[c].tail)
  BY DEF DeqReadHead, ConsumerAt
<1>2. q[1].msg \in Msg
  BY <1>1, FirstPending
<1>3. LengthsFit(reg[c], q[1].msg)
  BY <1>1 DEF LengthsFit
<1>4. /\ blob' = [blob EXCEPT ![c] = q[1].msg]
      /\ \E l \in {"unlock", "read_data"} : pc' = [pc EXCEPT ![c] = l]
      /\ UNCHANGED <<head, tail, block, mutex, reg, q, got>>
  BY <1>1, <1>3, HeadDecodes DEF DeqReadHead, Goto, shared
<1>5. TypeOK'
  BY <1>2, <1>4, RoleAssumption DEF TypeOK, Procs, ConsumerPCs
<1>6. Exclusion'
  BY <1>4, OneAtATime, RoleAssumption DEF Exclusion, TypeOK, Procs, Roles, DeqReadHead
<1>7. Chain' /\ PendingIntact'
  BY <1>4, RingFrame DEF shared
<1>8. ASSUME NEW p \in Producers PROVE ProducerAt(p)'
  BY <1>4, ProducerFrame, RoleAssumption DEF TypeOK, Procs, shared
<1>9. ASSUME NEW d \in Consumers PROVE ConsumerAt(d)'
  <2>1. CASE d = c
    BY <2>1, <1>1, <1>4 DEF ConsumerAt, TypeOK, Procs
  <2>2. CASE d # c
    BY <2>2, <1>4, ConsumerFrame DEF TypeOK, Procs
  <2> QED BY <2>1, <2>2
<1> QED BY <1>5, <1>6, <1>7, <1>8, <1>9

\* The data copied out is the data of the first pending message.
LEMMA DeqReadDataStep ==
    ASSUME IInv, NEW c \in Consumers, DeqReadData(c)
    PROVE  IInv'
<1> USE DEF IInv
<1> DEFINE f == q[1].msg
<1>1. q # << >> /\ reg[c].head = head /\ blob[c] = f
  BY DEF DeqReadData, ConsumerAt
<1>2. f \in Msg /\ q[1].at = head /\ 1 \in 1 .. Len(q) /\ TotalLen(f) < BlockSize
  BY <1>1, FirstPending
<1>3. DataLen(f) \in Nat /\ TotalLen(f) = HeadSize + DataLen(f)
  BY <1>2, Lengths
<1>4. Holds(head, f, 0, TotalLen(f))
  BY <1>2 DEF PendingIntact
<1>5. Holds(DataPos(head), f, HeadSize, DataLen(f))
  <2>1. head \in 0 .. BlockSize
    BY DEF TypeOK
  <2>2. ASSUME NEW i \in Cells, Offset(DataPos(head), i) < DataLen(f)
        PROVE  block[i] = <<f, HeadSize + Offset(DataPos(head), i)>>
    <3>1. /\ Offset(head, i) = HeadSize + Offset(DataPos(head), i)
          /\ Offset(head, i) < TotalLen(f)
      BY <1>2, <1>3, <2>1, <2>2, DataOffset
    <3>2. block[i] = <<f, 0 + Offset(head, i)>>
      BY <1>4, <3>1 DEF Holds
    <3>3. Offset(head, i) \in Int
      BY <2>1, SizeAssumption DEF Offset, Cells
    <3> QED BY <3>1, <3>2, <3>3
  <2> QED BY <2>2 DEF Holds
<1>6. /\ UNCHANGED <<head, tail, block, mutex, reg, blob, q, got>>
      /\ pc' = [pc EXCEPT ![c] = "release"]
  BY <1>1, <1>5 DEF DeqReadData, Goto, shared
<1>7. TypeOK'
  BY <1>6, RoleAssumption DEF TypeOK, Procs, ConsumerPCs
<1>8. Exclusion'
  BY <1>6, OneAtATime, RoleAssumption DEF Exclusion, TypeOK, Procs, DeqReadData
<1>9. Chain' /\ PendingIntact'
  BY <1>6, RingFrame DEF shared
<1>10. ASSUME NEW p \in Producers PROVE ProducerAt(p)'
  BY <1>6, ProducerFrame, RoleAssumption DEF TypeOK, Procs, shared
<1>11. ASSUME NEW d \in Consumers PROVE ConsumerAt(d)'
  <2>1. CASE d = c
    BY <2>1, <1>6 DEF ConsumerAt, TypeOK, Procs, DeqReadData
  <2>2. CASE d # c
    BY <2>2, <1>6, ConsumerFrame DEF TypeOK, Procs
  <2> QED BY <2>1, <2>2
<1> QED BY <1>7, <1>8, <1>9, <1>10, <1>11

\* A producer that has room writes behind the pending messages only.
LEMMA FreeSpaceOnly ==
    ASSUME TypeOK, Chain, NEW m \in Msg, Dist(tail) + TotalLen(m) < BlockSize,
           NEW n \in 1 .. Len(q), NEW i \in Cells,
           Offset(q[n].at, i) < TotalLen(q[n].msg)
    PROVE  Offset(tail, i) >= TotalLen(m)
<1>1. /\ head \in 0 .. BlockSize /\ tail \in 0 .. BlockSize
      /\ q[n].at \in 0 .. BlockSize /\ q[n].msg \in Msg
  <2>1. q \in Seq([msg : Msg, at : 0 .. BlockSize])
    BY DEF TypeOK
  <2>2. q[n] \in [msg : Msg, at : 0 .. BlockSize]
    BY <2>1, ElementOfSeq
  <2> QED BY <2>2 DEF TypeOK
<1>2. EndOf(n) <= Dist(tail) /\ Dist(tail) < BlockSize
  BY DEF Chain
<1>3. TotalLen(m) \in Nat /\ TotalLen(q[n].msg) \in Nat
  BY <1>1, Lengths
<1>4. Dist(q[n].at) \in Nat /\ Dist(tail) \in Nat
  BY <1>1, UsedIsNat DEF Dist
<1>5. Dist(q[n].at) < BlockSize
  BY <1>2, <1>3, <1>4, SizeAssumption DEF EndOf
<1>6. /\ Offset(q[n].at, i) \in Cells
      /\ Dist(q[n].at) + Offset(q[n].at, i) < BlockSize
            => Offset(head, i) = Dist(q[n].at) + Offset(q[n].at, i)
  BY <1>1, <1>5, OffsetShift DEF Dist
<1>7. /\ Offset(tail, i) \in Cells
      /\ Dist(tail) + Offset(tail, i) < BlockSize
            => Offset(head, i) = Dist(tail) + Offset(tail, i)
  BY <1>1, <1>2, OffsetShift DEF Dist
<1> QED BY <1>2, <1>3, <1>4, <1>6, <1>7, SizeAssumption DEF EndOf, Cells

\* Copying into the free part leaves the pending messages intact.
LEMMA CopyKeepsPending ==
    ASSUME TypeOK, Chain, PendingIntact,
           NEW m \in Msg, Dist(tail) + TotalLen(m) < BlockSize,
           NEW lo \in Nat, NEW hi \in Nat, hi <= TotalLen(m),
           block' = CopyIn(tail, m, lo, hi), UNCHANGED <<head, tail, q>>
    PROVE  Chain' /\ PendingIntact'
<1>1. Chain'
  BY DEF Chain, Dist, EndOf
<1>2. ASSUME NEW n \in 1 .. Len(q), NEW i \in Cells,
             Offset(q[n].at, i) < TotalLen(q[n].msg)
      PROVE  block'[i] = <<q[n].msg, 0 + Offset(q[n].at, i)>>
  <2>1. Offset(tail, i) >= TotalLen(m)
    BY <1>2, FreeSpaceOnly
  <2>2. Offset(tail, i) \in Int /\ TotalLen(m) \in Int
    BY Lengths, SizeAssumption DEF Offset, Cells, TypeOK
  <2>3. block'[i] = block[i]
    BY <2>1, <2>2 DEF CopyIn
  <2> QED BY <1>2, <2>3 DEF PendingIntact, Holds
<1>3. PendingIntact'
  BY <1>2 DEF PendingIntact, Holds
<1> QED BY <1>1, <1>3

\* Writing the header of the new message keeps the invariant.
LEMMA EnqCopyHeadStep ==
    ASSUME IInv, NEW p \in Producers, EnqCopyHead(p)
    PROVE  IInv'
<1> USE DEF IInv
<1>1. /\ pc[p] # "idle" /\ blob[p] \in Msg /\ reg[p].tail = tail
      /\ Dist(tail) + TotalLen(blob[p]) < BlockSize
  BY DEF EnqCopyHead, ProducerAt
<1>2. TotalLen(blob[p]) \in Nat /\ HeadSize <= TotalLen(blob[p]) /\ HeadSize \in Nat
  BY <1>1, Lengths, SizeAssumption
<1>3. /\ block' = CopyIn(tail, blob[p], 0, HeadSize)
      /\ pc' = [pc EXCEPT ![p] = "copy_data"]
      /\ UNCHANGED <<head, tail, mutex, reg, blob, q, got>>
  BY <1>1 DEF EnqCopyHead, Goto
<1>4. TypeOK'
  <2>1. block' \in [Cells -> (Msg \cup {Nil}) \X Nat]
    <3>1. ASSUME NEW i \in Cells, 0 <= Offset(tail, i)
          PROVE  <<blob[p], Offset(tail, i)>> \in (Msg \cup {Nil}) \X Nat
      BY <1>1, <3>1, SizeAssumption DEF Offset, Cells, TypeOK
    <3> QED BY <1>3, <3>1 DEF CopyIn, TypeOK
  <2> QED BY <1>3, <2>1, RoleAssumption DEF TypeOK, Procs, ProducerPCs
<1>5. Exclusion'
  BY <1>1, <1>3, OneAtATime, RoleAssumption DEF Exclusion, TypeOK, Procs
<1>6. Chain' /\ PendingIntact'
  BY <1>1, <1>2, <1>3, CopyKeepsPending
<1>7. ASSUME NEW r \in Producers PROVE ProducerAt(r)'
  <2>1. CASE r = p
    <3>1. Holds(tail, blob[p], 0, HeadSize)'
      BY <1>1, <1>2, <1>3, SizeAssumption, SMTT(30) DEF Holds, CopyIn, Offset, Cells, TypeOK
    <3> QED BY <2>1, <1>1, <1>3, <3>1 DEF ProducerAt, Dist, TypeOK, Procs
  <2>2. CASE r # p
    <3>1. pc[r] = "idle" /\ pc'[r] = "idle"
      BY <1>1, <1>3, <2>2, OneAtATime DEF TypeOK, Procs
    <3> QED BY <3>1 DEF ProducerAt
  <2> QED BY <2>1, <2>2
<1>8. ASSUME NEW c \in Consumers PROVE ConsumerAt(c)'
  BY <1>3, ConsumerFrame, RoleAssumption DEF TypeOK, Procs
<1> QED BY <1>4, <1>5, <1>6, <1>7, <1>8

\* Writing its data and extension data keeps the invariant.
LEMMA EnqCopyDataStep ==
    ASSUME IInv, NEW p \in Producers, EnqCopyData(p)
    PROVE  IInv'
<1> USE DEF IInv
<1>1. /\ pc[p] # "idle" /\ blob[p] \in Msg /\ reg[p].tail = tail
      /\ Dist(tail) + TotalLen(blob[p]) < BlockSize
  BY DEF EnqCopyData, ProducerAt
<1>2. TotalLen(blob[p]) \in Nat /\ HeadSize <= TotalLen(blob[p]) /\ HeadSize \in Nat
  BY <1>1, Lengths, SizeAssumption
<1>3. /\ block' = CopyIn(tail, blob[p], HeadSize, TotalLen(blob[p]))
      /\ pc' = [pc EXCEPT ![p] = "publish"]
      /\ UNCHANGED <<head, tail, mutex, reg, blob, q, got>>
  BY <1>1 DEF EnqCopyData, Goto
<1>4. TypeOK'
  <2>1. block' \in [Cells -> (Msg \cup {Nil}) \X Nat]
    <3>1. ASSUME NEW i \in Cells, HeadSize <= Offset(tail, i)
          PROVE  <<blob[p], Offset(tail, i)>> \in (Msg \cup {Nil}) \X Nat
      BY <1>1, <3>1, SizeAssumption DEF Offset, Cells, TypeOK
    <3> QED BY <1>3, <3>1 DEF CopyIn, TypeOK
  <2> QED BY <1>3, <2>1, RoleAssumption DEF TypeOK, Procs, ProducerPCs
<1>5. Exclusion'
  BY <1>1, <1>3, OneAtATime, RoleAssumption DEF Exclusion, TypeOK, Procs
<1>6. Chain' /\ PendingIntact'
  BY <1>1, <1>2, <1>3, CopyKeepsPending
<1>7. ASSUME NEW r \in Producers PROVE ProducerAt(r)'
  <2>1. CASE r = p
    <3>1. Holds(tail, blob[p], 0, HeadSize)
      BY DEF EnqCopyData, ProducerAt
    <3>2. Holds(tail, blob[p], 0, TotalLen(blob[p]))'
      <4>1. ASSUME NEW i \in Cells, Offset(tail, i) < TotalLen(blob[p])
            PROVE  block'[i] = <<blob[p], 0 + Offset(tail, i)>>
        <5>1. Offset(tail, i) \in Int
          BY SizeAssumption DEF Offset, Cells, TypeOK
        <5>2. CASE Offset(tail, i) < HeadSize
          BY <1>3, <3>1, <5>1, <5>2, SizeAssumption DEF Holds, CopyIn
        <5>3. CASE HeadSize <= Offset(tail, i)
          BY <1>3, <4>1, <5>1, <5>3, SizeAssumption DEF CopyIn
        <5> QED BY <5>1, <5>2, <5>3, SizeAssumption
      <4> QED BY <1>3, <4>1 DEF Holds
    <3> QED BY <2>1, <1>1, <1>3, <3>2 DEF ProducerAt, Dist, TypeOK, Procs
  <2>2. CASE r # p
    <3>1. pc[r] = "idle" /\ pc'[r] = "idle"
      BY <1>1, <1>3, <2>2, OneAtATime DEF TypeOK, Procs
    <3> QED BY <3>1 DEF ProducerAt
  <2> QED BY <2>1, <2>2
<1>8. ASSUME NEW c \in Consumers PROVE ConsumerAt(c)'
  BY <1>3, ConsumerFrame, RoleAssumption DEF TypeOK, Procs
<1> QED BY <1>4, <1>5, <1>6, <1>7, <1>8

\* Publishing appends a message that is already in place.
LEMMA EnqPublishStep ==
    ASSUME IInv, NEW p \in Producers, EnqPublish(p)
    PROVE  IInv'
<1> USE DEF IInv
<1> DEFINE m == blob[p]
           e == [msg |-> m, at |-> tail]
<1>1. /\ pc[p] # "idle" /\ m \in Msg /\ reg[p].tail = tail
      /\ Dist(tail) + TotalLen(m) < BlockSize
      /\ Holds(tail, m, 0, TotalLen(m))
  BY DEF EnqPublish, ProducerAt
<1>2. /\ DataLen(m) \in Nat /\ TotalLen(m) \in Nat /\ TotalLen(m) > 0
  BY <1>1, Lengths, SizeAssumption
<1>3. /\ tail' = NewTail(tail, tail, m)
      /\ q' = Append(q, e)
      /\ pc' = [pc EXCEPT ![p] = "unlock"]
      /\ UNCHANGED <<head, block, mutex, reg, blob, got>>
  BY <1>1 DEF EnqPublish, Goto
<1>4. /\ head \in 0 .. BlockSize /\ tail \in 0 .. BlockSize
      /\ q \in Seq([msg : Msg, at : 0 .. BlockSize])
      /\ e \in [msg : Msg, at : 0 .. BlockSize]
  BY <1>1 DEF TypeOK
<1>5. tail' \in 1 .. BlockSize /\ StatUsedLen(head, tail') = Dist(tail) + TotalLen(m)
  BY <1>1, <1>2, <1>3, <1>4, TailAdvance DEF Dist
<1>6. /\ Len(q) \in Nat /\ Len(q') = Len(q) + 1
      /\ q'[Len(q) + 1] = e
      /\ \A n \in 1 .. Len(q) : q'[n] = q[n]
      /\ q' \in Seq([msg : Msg, at : 0 .. BlockSize])
  BY <1>3, <1>4, AppendProperties
<1>7. TypeOK'
  BY <1>3, <1>5, <1>6, SizeAssumption, RoleAssumption DEF TypeOK, Procs, ProducerPCs
<1>8. Exclusion'
  BY <1>1, <1>3, OneAtATime, RoleAssumption DEF Exclusion, TypeOK, Procs
<1>9. Dist(tail) \in Nat
  BY <1>4, UsedIsNat DEF Dist
<1>10. ASSUME NEW n \in 1 .. Len(q)
       PROVE  q[n] \in [msg : Msg, at : 0 .. BlockSize] /\ EndOf(n) \in Nat
  <2>1. q[n] \in [msg : Msg, at : 0 .. BlockSize]
    BY <1>4, ElementOfSeq
  <2>2. Dist(q[n].at) \in Nat /\ TotalLen(q[n].msg) \in Nat
    BY <1>4, <2>1, UsedIsNat, Lengths DEF Dist
  <2> QED BY <2>1, <2>2 DEF EndOf
<1>11. PendingIntact'
  <2>1. ASSUME NEW n \in 1 .. Len(q')
        PROVE  Holds(q'[n].at, q'[n].msg, 0, TotalLen(q'[n].msg))
    <3>1. CASE n = Len(q) + 1
      BY <1>1, <1>6, <3>1
    <3>2. CASE n \in 1 .. Len(q)
      BY <1>6, <3>2 DEF PendingIntact
    <3> QED BY <1>6, <3>1, <3>2
  <2> QED BY <1>3, <2>1 DEF PendingIntact, Holds
<1>12. Chain'
  <2>1. Dist(tail)' < BlockSize /\ Dist(tail)' = Dist(tail) + TotalLen(m)
    BY <1>1, <1>3, <1>5 DEF Dist
  <2>2. tail' # 0
    BY <1>5, SizeAssumption
  <2>3. q' # << >>
    BY <1>6
  <2>4. q'[1].at = head'
    <3>1. CASE q = << >>
      BY <1>3, <1>6, <3>1 DEF Chain
    <3>2. CASE q # << >>
      BY <1>3, <1>4, <1>6, <3>2, EmptySeq DEF Chain
    <3> QED BY <3>1, <3>2
  <2>5. ASSUME NEW n \in 1 .. Len(q')
        PROVE  /\ EndOf(n)' <= Dist(tail)'
               /\ (IF n = Len(q') THEN tail' ELSE q'[n + 1].at)
                     = NewTail(q'[n].at, q'[n].at, q'[n].msg)
    <3>1. CASE n = Len(q) + 1
      <4>1. EndOf(n)' = Dist(tail) + TotalLen(m)
        BY <1>3, <1>6, <3>1 DEF EndOf, Dist
      <4> QED BY <1>2, <1>3, <1>6, <1>9, <2>1, <3>1, <4>1
    <3>2. CASE n \in 1 .. Len(q)
      <4>1. EndOf(n)' = EndOf(n) /\ EndOf(n) <= Dist(tail)
        BY <1>3, <1>6, <3>2 DEF EndOf, Dist, Chain
      <4>2. (IF n = Len(q') THEN tail' ELSE q'[n + 1].at)
              = (IF n = Len(q) THEN tail ELSE q[n + 1].at)
        BY <1>6, <3>2
      <4>3. (IF n = Len(q) THEN tail ELSE q[n + 1].at)
              = NewTail(q[n].at, q[n].at, q[n].msg)
        BY <3>2 DEF Chain
      <4>4. EndOf(n)' <= Dist(tail)'
        BY <1>2, <1>9, <1>10, <2>1, <3>2, <4>1
      <4>5. q'[n] = q[n]
        BY <1>6, <3>2
      <4> QED BY <4>2, <4>3, <4>4, <4>5
    <3> QED BY <1>6, <3>1, <3>2
  <2>6. ASSUME NEW k \in 1 .. Len(q'), NEW n \in 1 .. Len(q'), k < n
        PROVE  EndOf(k)' <= Dist(q[n].at)'
    <3>1. k \in 1 .. Len(q) /\ EndOf(k)' = EndOf(k)
      BY <1>3, <1>6, <2>6 DEF EndOf, Dist
    <3>2. CASE n = Len(q) + 1
      <4>1. Dist(q[n].at)' = Dist(tail)
        BY <1>3, <1>6, <3>2 DEF Dist
      <4> QED BY <3>1, <4>1 DEF Chain
    <3>3. CASE n \in 1 .. Len(q)
      <4>1. Dist(q[n].at)' = Dist(q[n].at)
        BY <1>3, <1>6, <3>3 DEF Dist
      <4> QED BY <2>6, <3>1, <3>3, <4>1 DEF Chain
    <3> QED BY <1>6, <3>2, <3>3
  <2> QED BY <2>1, <2>2, <2>3, <2>4, <2>5, <2>6 DEF Chain
<1>13. ASSUME NEW r \in Producers PROVE ProducerAt(r)'
  <2>1. CASE r = p
    BY <1>3, <2>1 DEF ProducerAt, TypeOK, Procs
  <2>2. CASE r # p
    <3>1. pc[r] = "idle" /\ pc'[r] = "idle"
      BY <1>1, <1>3, <2>2, OneAtATime DEF TypeOK, Procs
    <3> QED BY <3>1 DEF ProducerAt
  <2> QED BY <2>1, <2>2
<1>14. ASSUME NEW c \in Consumers PROVE ConsumerAt(c)'
  <2>1. pc'[c] = pc[c]
    BY <1>3, RoleAssumption DEF TypeOK, Procs
  <2>2. q # << >> => q'[1] = q[1] /\ q' # << >>
    BY <1>4, <1>6, EmptySeq
  <2> QED BY <1>3, <2>1, <2>2 DEF ConsumerAt
<1> QED BY <1>7, <1>8, <1>11, <1>12, <1>13, <1>14

\* Releasing the first message moves head to the second, or to the tail.
LEMMA DeqReleaseStep ==
    ASSUME NonEmpty, IInv, NEW c \in Consumers, DeqRelease(c),
           NEW l \in {"unlock", "load"}, Goto(c, l),
           got' \in [Consumers -> Msg \cup {Nil}],
           UNCHANGED <<tail, block, mutex, reg, blob>>
    PROVE  IInv'
<1> USE DEF IInv
<1> DEFINE f == q[1].msg
<1>1. /\ pc[c] # "idle" /\ q # << >> /\ reg[c].head = head /\ blob[c] = f
  BY DEF DeqRelease, ConsumerAt
<1>2. /\ f \in Msg /\ q[1].at = head /\ 1 \in 1 .. Len(q)
      /\ TotalLen(f) <= Dist(tail) /\ TotalLen(f) < BlockSize /\ Dist(head) = 0
  BY <1>1, FirstPending
<1>3. DataLen(f) \in Nat /\ DataLen(f) >= 1 /\ TotalLen(f) \in Nat
  BY <1>2, Lengths DEF NonEmpty
<1>4. /\ head \in 0 .. BlockSize /\ tail \in 0 .. BlockSize
      /\ q \in Seq([msg : Msg, at : 0 .. BlockSize])
  BY DEF TypeOK
<1>5. head' = NewTail(head, head, f) /\ head' \in 1 .. BlockSize
  BY <1>1, <1>2, <1>3, <1>4, HeadFollowsTail DEF DeqRelease
<1>6. /\ Len(q) \in Nat /\ q' \in Seq([msg : Msg, at : 0 .. BlockSize])
      /\ Len(q') = Len(q) - 1
      /\ \A n \in 1 .. Len(q') : q'[n] = q[n + 1]
  <2>1. q' = Tail(q)
    BY <1>1 DEF DeqRelease
  <2> QED BY <1>1, <1>4, <2>1, HeadTailProperties
<1>7. /\ Dist(tail) \in Nat /\ Dist(tail) < BlockSize
  BY <1>4, UsedIsNat DEF Dist, Chain
<1>8. Dist(tail)' = Dist(tail) - TotalLen(f)
  BY <1>2, <1>3, <1>4, <1>5, <1>7, HeadAdvance DEF Dist
<1>9. ASSUME NEW n \in 1 .. Len(q), n > 1
      PROVE  /\ q[n].msg \in Msg /\ q[n].at \in 0 .. BlockSize
             /\ Dist(q[n].at) \in Nat /\ TotalLen(q[n].msg) \in Nat
             /\ StatUsedLen(head', q[n].at) = Dist(q[n].at) - TotalLen(f)
  <2>1. q[n].msg \in Msg /\ q[n].at \in 0 .. BlockSize
    <3>1. q[n] \in [msg : Msg, at : 0 .. BlockSize]
      BY <1>4, ElementOfSeq
    <3> QED BY <3>1
  <2>2. Dist(q[n].at) \in Nat /\ TotalLen(q[n].msg) \in Nat
    BY <1>4, <2>1, UsedIsNat, Lengths DEF Dist
  <2>3. EndOf(1) <= Dist(q[n].at) /\ EndOf(n) <= Dist(tail)
    BY <1>2, <1>9 DEF Chain
  <2>4. TotalLen(f) <= Dist(q[n].at)
    BY <1>2, <1>3, <2>2, <2>3 DEF EndOf
  <2>5. Dist(q[n].at) < BlockSize
    BY <1>7, <2>2, <2>3, SizeAssumption DEF EndOf
  <2>6. StatUsedLen(head', q[n].at) = Dist(q[n].at) - TotalLen(f)
    BY <1>3, <1>4, <1>5, <2>1, <2>4, <2>5, HeadAdvance DEF Dist
  <2> QED BY <2>1, <2>2, <2>6
<1>10. ASSUME NEW n \in 1 .. Len(q')
       PROVE  /\ n + 1 \in 1 .. Len(q) /\ n + 1 > 1
              /\ q'[n] = q[n + 1]
              /\ Dist(q[n].at)' = Dist(q[n + 1].at) - TotalLen(f)
              /\ EndOf(n)' = EndOf(n + 1) - TotalLen(f)
              /\ EndOf(n + 1) \in Nat /\ Dist(q[n + 1].at) \in Nat
  <2>1. n + 1 \in 1 .. Len(q) /\ n + 1 > 1 /\ q'[n] = q[n + 1]
    BY <1>6
  <2>2. /\ Dist(q[n + 1].at) \in Nat /\ TotalLen(q[n + 1].msg) \in Nat
        /\ StatUsedLen(head', q[n + 1].at) = Dist(q[n + 1].at) - TotalLen(f)
    BY <1>9, <2>1
  <2>3. Dist(q[n].at)' = Dist(q[n + 1].at) - TotalLen(f)
    BY <2>1, <2>2 DEF Dist
  <2>4. EndOf(n)' = Dist(q[n].at)' + TotalLen(q[n + 1].msg)
    BY <2>1 DEF EndOf
  <2> QED BY <1>3, <2>1, <2>2, <2>3, <2>4 DEF EndOf
<1>11. TypeOK'
  BY <1>5, <1>6, SizeAssumption, RoleAssumption, SMTT(30) DEF TypeOK, Goto, Procs, ConsumerPCs
<1>12. Exclusion'
  BY <1>1, OneAtATime, RoleAssumption DEF Exclusion, Goto, TypeOK, Procs
<1>13. PendingIntact'
  <2>1. ASSUME NEW n \in 1 .. Len(q')
        PROVE  Holds(q'[n].at, q'[n].msg, 0, TotalLen(q'[n].msg))
    BY <1>10 DEF PendingIntact
  <2> QED BY <2>1 DEF PendingIntact, Holds
<1>14. Chain'
  <2>1. Dist(tail)' < BlockSize
    BY <1>3, <1>7, <1>8, SizeAssumption
  <2>2. tail # 0
    BY <1>1 DEF Chain
  <2>3. (IF 1 = Len(q) THEN tail ELSE q[2].at) = head'
    <3>1. (IF 1 = Len(q) THEN tail ELSE q[1 + 1].at)
             = NewTail(q[1].at, q[1].at, q[1].msg)
      BY <1>2 DEF Chain
    <3>2. 1 + 1 = 2
      OBVIOUS
    <3> QED BY <1>2, <1>5, <3>1, <3>2
  <2>4. /\ q' = << >> => head' = tail'
        /\ q' # << >> => q'[1].at = head'
    <3>1. CASE Len(q) = 1
      BY <1>4, <1>6, <2>3, <3>1, EmptySeq
    <3>2. CASE Len(q) # 1
      <4>1. 1 \in 1 .. Len(q') /\ q' # << >>
        BY <1>2, <1>6, <3>2
      <4> QED BY <1>6, <2>3, <3>2, <4>1
    <3> QED BY <3>1, <3>2
  <2>5. ASSUME NEW n \in 1 .. Len(q')
        PROVE  /\ EndOf(n)' <= Dist(tail)'
               /\ (IF n = Len(q') THEN tail' ELSE q'[n + 1].at)
                     = NewTail(q'[n].at, q'[n].at, q'[n].msg)
    <3>1. EndOf(n + 1) <= Dist(tail)
      BY <1>10 DEF Chain
    <3>2. EndOf(n)' <= Dist(tail)'
      BY <1>3, <1>7, <1>8, <1>10, <3>1
    <3>3. (IF n + 1 = Len(q) THEN tail ELSE q[n + 1 + 1].at)
             = NewTail(q[n + 1].at, q[n + 1].at, q[n + 1].msg)
      BY <1>10 DEF Chain
    <3>4. (IF n = Len(q') THEN tail' ELSE q'[n + 1].at)
             = (IF n + 1 = Len(q) THEN tail ELSE q[n + 1 + 1].at)
      <4>1. CASE n = Len(q')
        BY <1>6, <4>1
      <4>2. CASE n # Len(q')
        <5>1. n + 1 \in 1 .. Len(q') /\ n + 1 # Len(q)
          BY <1>6, <4>2
        <5> QED BY <1>10, <4>2, <5>1
      <4> QED BY <4>1, <4>2
    <3> QED BY <1>10, <3>2, <3>3, <3>4
  <2>6. ASSUME NEW k \in 1 .. Len(q'), NEW n \in 1 .. Len(q'), k < n
        PROVE  EndOf(k)' <= Dist(q[n].at)'
    <3>1. k + 1 < n + 1
      BY <1>6, <2>6
    <3>2. EndOf(k + 1) <= Dist(q[n + 1].at)
      BY <1>10, <3>1 DEF Chain
    <3> QED BY <1>3, <1>10, <3>2
  <2> QED BY <2>1, <2>2, <2>4, <2>5, <2>6 DEF Chain
<1>15. ASSUME NEW p \in Producers PROVE ProducerAt(p)'
  <2>1. pc'[p] = pc[p]
    BY RoleAssumption DEF Goto, TypeOK, Procs
  <2>2. ASSUME pc[p] \in {"copy_head", "copy_data", "publish"}
        PROVE  Dist(tail)' + TotalLen(blob[p]) < BlockSize
    <3>1. blob[p] \in Msg /\ Dist(tail) + TotalLen(blob[p]) < BlockSize
      BY <2>2 DEF ProducerAt
    <3> QED BY <1>3, <1>7, <1>8, <3>1, Lengths, SizeAssumption
  <2> QED BY <2>1, <2>2 DEF ProducerAt, Holds
<1>16. ASSUME NEW d \in Consumers PROVE ConsumerAt(d)'
  <2>1. CASE d = c
    BY <2>1 DEF ConsumerAt, Goto, TypeOK, Procs
  <2>2. CASE d # c
    <3>1. pc[d] = "idle" /\ pc'[d] = "idle"
      BY <1>1, <2>2, OneAtATime DEF Goto, TypeOK, Procs
    <3> QED BY <3>1 DEF ConsumerAt
  <2> QED BY <2>1, <2>2
<1> QED BY <1>11, <1>12, <1>13, <1>14, <1>15, <1>16

------------------------------------------------------------------------------
(* The theorems.                                                           *)

\* The ring a first process creates satisfies the invariant.
LEMMA InitIInv == Init => IInv
<1> SUFFICES ASSUME Init PROVE IInv
  OBVIOUS
<1> USE DEF Init
<1>1. q = << >> /\ Len(q) = 0 /\ 1 .. Len(q) = {}
  OBVIOUS
<1>2. TypeOK
  BY <1>1, SizeAssumption, RoleAssumption
     DEF TypeOK, Procs, ProducerPCs, ConsumerPCs
<1>3. Exclusion
  BY DEF Exclusion, Procs
<1>4. Chain /\ PendingIntact
  BY <1>1, SizeAssumption DEF Chain, PendingIntact, Dist, StatUsedLen
<1>5. \A p \in Producers : ProducerAt(p)
  BY DEF ProducerAt, Procs
<1>6. \A c \in Consumers : ConsumerAt(c)
  BY DEF ConsumerAt, Procs
<1> QED BY <1>2, <1>3, <1>4, <1>5, <1>6 DEF IInv

\* Every step of every process keeps the invariant.
LEMMA NextIInv ==
    ASSUME NonEmpty, IInv, [Next]_vars
    PROVE  IInv'
<1>1. ASSUME NEW p \in Producers, ProducerStep(p) PROVE IInv'
  BY <1>1, ProduceStep, EnqFullStep, EnqLoadStep, EnqCopyHeadStep, EnqCopyDataStep,
     EnqPublishStep, ProducerUnlockStep DEF ProducerStep
<1>2. ASSUME NEW c \in Consumers, ConsumerStep(c) PROVE IInv'
  <2>1. CASE DeqReturn(c)
    <3>1. blob[c] \in Msg \cup {Nil} /\ got \in [Consumers -> Msg \cup {Nil}]
      BY DEF IInv, TypeOK, Procs
    <3>2. got' \in [Consumers -> Msg \cup {Nil}]
      BY <2>1, <3>1 DEF DeqReturn
    <3> QED BY <2>1, <3>2, DeqReleaseStep DEF DeqReturn
  <2>2. CASE DeqExpired(c)
    BY <2>2, DeqReleaseStep DEF DeqExpired, IInv, TypeOK
  <2> QED BY <1>2, <2>1, <2>2, ComsumeStep, DeqEmptyStep, DeqLoadStep,
             DeqReadHeadStep, DeqReadDataStep, ConsumerUnlockStep DEF ConsumerStep
<1>3. CASE UNCHANGED vars
  <2> USE <1>3 DEF vars, shared, IInv
  <2>1. TypeOK' /\ Exclusion'
    BY DEF TypeOK, Exclusion
  <2>2. Chain' /\ PendingIntact'
    BY RingFrame
  <2>3. \A p \in Producers : ProducerAt(p)'
    BY ProducerFrame
  <2>4. \A c \in Consumers : ConsumerAt(c)'
    BY ConsumerFrame
  <2> QED BY <2>1, <2>2, <2>3, <2>4
<1> QED BY <1>1, <1>2, <1>3 DEF Next

\* The invariant holds throughout, for every instance of the ring.
THEOREM Invariance ==
    ASSUME NonEmpty
    PROVE  Spec => []IInv
<1>1. Init => IInv
  BY InitIInv
<1>2. IInv /\ [Next]_vars => IInv'
  BY NextIInv
<1> QED BY <1>1, <1>2, PTL DEF Spec

\* Type correctness: head and tail never leave the block, no torn message is
\* ever in the hands of a caller.
THEOREM TypeCorrect ==
    ASSUME NonEmpty
    PROVE  Spec => []TypeOK
<1>1. IInv => TypeOK
  BY DEF IInv
<1> QED BY <1>1, Invariance, PTL

\* dequeue_i()'s assertion never fires.
THEOREM AssertionSafe ==
    ASSUME NonEmpty
    PROVE  Spec => []AssertionHolds
<1>1. IInv => AssertionHolds
  BY DEF IInv, ConsumerAt, AssertionHolds
<1> QED BY <1>1, Invariance, PTL

\* What is published stays in the ring as it was written until it is taken.
THEOREM PendingSafe ==
    ASSUME NonEmpty
    PROVE  Spec => []PendingIntact
<1>1. IInv => PendingIntact
  BY DEF IInv
<1> QED BY <1>1, Invariance, PTL

\* In such a state head = tail when nothing is pending, and only then.
LEMMA EmptyTest == IInv => EmptyMeansEmpty
BY FirstPending DEF IInv, EmptyMeansEmpty, Chain

\* head = tail is a sound and complete test for an empty ring.
THEOREM EmptySafe ==
    ASSUME NonEmpty
    PROVE  Spec => []EmptyMeansEmpty
<1> QED BY EmptyTest, Invariance, PTL

\* A producer writes into free bytes only, and only the first pending message is
\* ever forgotten.
THEOREM UntouchedSafe ==
    ASSUME NonEmpty
    PROVE  Spec => PendingUntouched
<1> DEFINE A == /\ \A n \in 1 .. Len(q), i \in Cells :
                     Offset(q[n].at, i) < TotalLen(q[n].msg) => block'[i] = block[i]
                /\ Len(q') < Len(q) => q' = Tail(q)
<1>1. ASSUME IInv, [Next]_vars PROVE [A]_vars
  <2> USE <1>1
  <2> SUFFICES ASSUME Next PROVE A
    OBVIOUS
  <2>1. q \in Seq([msg : Msg, at : 0 .. BlockSize]) /\ Len(q) \in Nat
    BY LenProperties DEF IInv, TypeOK
  <2>2. ASSUME NEW p \in Producers, EnqCopyHead(p) \/ EnqCopyData(p) PROVE A
    <3>1. /\ blob[p] \in Msg /\ reg[p].tail = tail /\ TypeOK /\ Chain
          /\ Dist(tail) + TotalLen(blob[p]) < BlockSize
      BY <2>2 DEF IInv, ProducerAt, EnqCopyHead, EnqCopyData
    <3>2. ASSUME NEW n \in 1 .. Len(q), NEW i \in Cells,
                 Offset(q[n].at, i) < TotalLen(q[n].msg)
          PROVE  block'[i] = block[i]
      <4>1. Offset(tail, i) >= TotalLen(blob[p])
        BY <3>1, <3>2, FreeSpaceOnly
      <4>2. /\ Offset(tail, i) \in Int /\ TotalLen(blob[p]) \in Int
            /\ HeadSize \in Int /\ HeadSize <= TotalLen(blob[p])
        <5>1. tail \in Int /\ i \in Int /\ BlockSize \in Int /\ HeadSize \in Int
          BY <3>1, SizeAssumption DEF TypeOK, Cells
        <5>2. Offset(tail, i) \in Int
          BY <5>1 DEF Offset
        <5>3. TotalLen(blob[p]) \in Nat /\ HeadSize <= TotalLen(blob[p])
          BY <3>1, <5>1, Lengths, SizeAssumption
        <5> QED BY <5>1, <5>2, <5>3
      <4>3. CASE EnqCopyHead(p)
        BY <3>1, <4>1, <4>2, <4>3 DEF EnqCopyHead, CopyIn
      <4>4. CASE EnqCopyData(p)
        BY <3>1, <4>1, <4>2, <4>4 DEF EnqCopyData, CopyIn
      <4> QED BY <2>2, <4>3, <4>4
    <3>3. q' = q
      BY <2>2 DEF EnqCopyHead, EnqCopyData
    <3> QED BY <2>1, <3>2, <3>3
  <2>3. ASSUME NEW p \in Producers, EnqPublish(p) PROVE A
    <3>1. block' = block /\ q' = Append(q, [msg |-> blob[p], at |-> reg[p].tail])
      BY <2>3 DEF EnqPublish
    <3>2. blob[p] \in Msg /\ reg[p].tail \in 0 .. BlockSize
      BY <2>3 DEF IInv, TypeOK, ProducerAt, EnqPublish
    <3>3. Len(q') = Len(q) + 1
      BY <2>1, <3>1, <3>2, AppendProperties
    <3> QED BY <2>1, <3>1, <3>3
  <2>4. ASSUME NEW c \in Consumers, DeqReturn(c) \/ DeqExpired(c) PROVE A
    BY <2>1, <2>4 DEF DeqReturn, DeqExpired, DeqRelease
  <2>5. ASSUME block' = block, q' = q PROVE A
    BY <2>1, <2>5
  <2> HIDE DEF A
  <2> QED BY <2>2, <2>3, <2>4, <2>5
         DEF Next, ProducerStep, ConsumerStep, Produce, EnqFull, EnqLoad, Comsume,
             DeqEmpty, DeqLoad, DeqReadHead, DeqReadData, Unlock, shared
<1>2. Spec => [][A]_vars
  BY <1>1, Invariance, PTL DEF Spec
<1> QED BY <1>2 DEF PendingUntouched
------------------------------------------------------------------------------
(* ShmMQ implements ShmFifo.                                               *)

Entry == [msg : Msg, at : 0 .. BlockSize]

\* The pending messages form a sequence as long as the history.
LEMMA MessagesSeq ==
    ASSUME NEW s \in Seq(Entry)
    PROVE  /\ Messages(s) \in Seq(Msg)
           /\ Len(Messages(s)) = Len(s)
           /\ Len(s) \in Nat
           /\ \A n \in 1 .. Len(s) : Messages(s)[n] = s[n].msg
<1>1. Len(s) \in Nat /\ \A n \in 1 .. Len(s) : s[n] \in Entry
  BY LenProperties, ElementOfSeq
<1>2. Messages(s) \in [1 .. Len(s) -> Msg]
  BY <1>1 DEF Messages, Entry
<1>3. Messages(s) \in Seq(Msg)
  BY <1>1, <1>2, SeqDef
<1>4. DOMAIN Messages(s) = 1 .. Len(Messages(s)) /\ Len(Messages(s)) \in Nat
  BY <1>3, LenProperties
<1>5. 1 .. Len(Messages(s)) = 1 .. Len(s)
  BY <1>4 DEF Messages
<1>6. Len(Messages(s)) = Len(s)
  BY <1>1, <1>4, <1>5
<1> QED BY <1>1, <1>3, <1>6 DEF Messages

\* Publishing appends to it.
LEMMA MessagesAppend ==
    ASSUME NEW s \in Seq(Entry), NEW e \in Entry
    PROVE  Messages(Append(s, e)) = Append(Messages(s), e.msg)
<1> DEFINE t == Append(s, e)
           u == Append(Messages(s), e.msg)
<1>1. /\ Messages(s) \in Seq(Msg) /\ Len(Messages(s)) = Len(s) /\ Len(s) \in Nat
      /\ \A n \in 1 .. Len(s) : Messages(s)[n] = s[n].msg
  BY MessagesSeq
<1>2. /\ t \in Seq(Entry) /\ Len(t) = Len(s) + 1 /\ t[Len(s) + 1] = e
      /\ \A n \in 1 .. Len(s) : t[n] = s[n]
  BY AppendProperties
<1>3. /\ Messages(t) \in Seq(Msg) /\ Len(Messages(t)) = Len(s) + 1
      /\ \A n \in 1 .. Len(s) + 1 : Messages(t)[n] = t[n].msg
  BY <1>2, MessagesSeq
<1>4. e.msg \in Msg
  BY DEF Entry
<1>5. /\ u \in Seq(Msg) /\ Len(u) = Len(s) + 1 /\ u[Len(s) + 1] = e.msg
      /\ \A n \in 1 .. Len(s) : u[n] = s[n].msg
  BY <1>1, <1>4, AppendProperties
<1>6. \A n \in 1 .. Len(s) + 1 : Messages(t)[n] = u[n]
  BY <1>1, <1>2, <1>3, <1>5
<1> HIDE DEF t, u
<1>7. Messages(t) = u
  BY <1>3, <1>5, <1>6, SeqEqual
<1> QED BY <1>7 DEF t, u

\* Releasing the first message removes the first element.
LEMMA MessagesTail ==
    ASSUME NEW s \in Seq(Entry), s # << >>
    PROVE  /\ Messages(s) # << >>
           /\ Head(Messages(s)) = s[1].msg
           /\ Messages(Tail(s)) = Tail(Messages(s))
<1>1. /\ Messages(s) \in Seq(Msg) /\ Len(Messages(s)) = Len(s) /\ Len(s) \in Nat
      /\ \A n \in 1 .. Len(s) : Messages(s)[n] = s[n].msg
  BY MessagesSeq
<1>2. Len(s) > 0
  BY EmptySeq
<1>3. Messages(s) # << >>
  BY <1>1, <1>2
<1>4. Head(Messages(s)) = s[1].msg
  BY <1>1, <1>2, <1>3
<1>5. /\ Tail(s) \in Seq(Entry) /\ Len(Tail(s)) = Len(s) - 1
      /\ \A n \in 1 .. Len(s) - 1 : Tail(s)[n] = s[n + 1]
  BY HeadTailProperties
<1>6. /\ Tail(Messages(s)) \in Seq(Msg) /\ Len(Tail(Messages(s))) = Len(s) - 1
      /\ \A n \in 1 .. Len(s) - 1 : Tail(Messages(s))[n] = Messages(s)[n + 1]
  BY <1>1, <1>3, HeadTailProperties
<1>7. /\ Messages(Tail(s)) \in Seq(Msg) /\ Len(Messages(Tail(s))) = Len(s) - 1
      /\ \A n \in 1 .. Len(s) - 1 : Messages(Tail(s))[n] = Tail(s)[n].msg
  BY <1>5, MessagesSeq
<1>8. \A n \in 1 .. Len(s) - 1 : Messages(Tail(s))[n] = Tail(Messages(s))[n]
  BY <1>1, <1>5, <1>6, <1>7
<1>9. Messages(Tail(s)) = Tail(Messages(s))
  BY <1>6, <1>7, <1>8, SeqEqual
<1> QED BY <1>3, <1>4, <1>9

\* A step of the byte ring is a step of the FIFO of messages, or none.
LEMMA StepOfFifo ==
    ASSUME IInv, [Next]_vars
    PROVE  [Fifo!Next]_(Fifo!vars)
<1>1. q \in Seq(Entry) /\ got \in [Consumers -> Msg \cup {Nil}]
  BY DEF IInv, TypeOK, Entry
<1>2. ASSUME NEW p \in Producers, EnqPublish(p) PROVE Fifo!Send
  <2>1. blob[p] \in Msg /\ reg[p].tail \in 0 .. BlockSize
    BY <1>2 DEF IInv, TypeOK, ProducerAt, EnqPublish, Procs
  <2>2. [msg |-> blob[p], at |-> reg[p].tail] \in Entry
    BY <2>1 DEF Entry
  <2>3. Messages(q') = Append(Messages(q), blob[p])
    BY <1>1, <1>2, <2>2, MessagesAppend DEF EnqPublish
  <2> QED BY <1>2, <2>1, <2>3 DEF Fifo!Send, EnqPublish
<1>3. ASSUME NEW c \in Consumers, DeqRelease(c)
      PROVE  /\ Messages(q) # << >> /\ Messages(q') = Tail(Messages(q))
             /\ blob[c] = Head(Messages(q))
  <2>1. q # << >> /\ blob[c] = q[1].msg
    BY <1>3 DEF IInv, ConsumerAt, DeqRelease
  <2>2. q' = Tail(q)
    BY <1>3, <2>1 DEF DeqRelease
  <2> QED BY <1>1, <2>1, <2>2, MessagesTail
<1>4. ASSUME NEW c \in Consumers, DeqReturn(c) PROVE Fifo!Receive
  BY <1>3, <1>4 DEF DeqReturn, Fifo!Receive
<1>5. ASSUME NEW c \in Consumers, DeqExpired(c) PROVE Fifo!Expire
  BY <1>3, <1>5 DEF DeqExpired, Fifo!Expire
<1>6. ASSUME q' = q, got' = got PROVE UNCHANGED Fifo!vars
  BY <1>6 DEF Fifo!vars
<1> QED BY <1>2, <1>4, <1>5, <1>6
       DEF Next, vars, ProducerStep, ConsumerStep, Produce, EnqFull, EnqLoad,
           EnqCopyHead, EnqCopyData, Comsume, DeqEmpty, DeqLoad, DeqReadHead,
           DeqReadData, Unlock, Fifo!Next

\* Every behaviour of the byte ring is a behaviour of the FIFO of messages: what
\* comsume() returns is the oldest message, unchanged, once.
THEOREM Refinement ==
    ASSUME NonEmpty
    PROVE  Spec => ImplementsFifo
<1>1. Init => Fifo!Init
  BY DEF Init, Fifo!Init, Messages
<1>2. IInv /\ [Next]_vars => [Fifo!Next]_(Fifo!vars)
  BY StepOfFifo
<1> QED BY <1>1, <1>2, Invariance, PTL DEF Spec, ImplementsFifo, Fifo!Spec

==============================================================================
