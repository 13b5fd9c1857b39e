-------------------------------- MODULE ShmMQ --------------------------------
(***************************************************************************)
(* CShmMQ: the byte ring in System V shared memory that joins the proxy to *)
(* the workers of one group (src/base/shmcommu.cpp), with the producers    *)
(* and consumers that work on it at the same time.                         *)
(*                                                                         *)
(* The words *head_ and *tail_ and the bytes of block_ are shared; nothing *)
(* orders a producer and a consumer but the order of their loads and       *)
(* stores. Producers exclude each other with a mutex when LOCK_TYPE_       *)
(* PRODUCER is set, consumers with another one when LOCK_TYPE_COMSUMER is. *)
(*                                                                         *)
(* A byte is abstracted to <<m, k>>: byte k of the image of message m,     *)
(* whose bytes are HeadSize bytes of header, m.len of data and m.ext of    *)
(* extension data. Every enqueue and dequeue is cut at its accesses to     *)
(* shared memory.                                                          *)
(***************************************************************************)
EXTENDS Integers, Sequences

CONSTANTS
    Producers,  \* processes that call produce() on this ring
    Consumers,  \* processes that call comsume() on this ring
    LockType,   \* locktype_: a subset of Roles
    Msg,        \* blobs: records with fields len, ext (lengths) and id
    BlockSize,  \* blocksize_
    HeadSize,   \* C_HEAD_SIZE
    MaxBlob,    \* MAX_BLOB_DATA_LEN
    Expiry,     \* TRUE iff msg_timeout_ # 0
    NoOne,      \* holder of a free mutex
    Nil,        \* no message
    Torn        \* the id of what is read from bytes of no single message

Roles == {"producer", "consumer"}
Procs == Producers \cup Consumers
Cells == 0 .. BlockSize - 1

ASSUME SizeAssumption ==
    /\ HeadSize \in Nat \ {0}
    /\ BlockSize \in Nat
    /\ HeadSize < BlockSize
    /\ MaxBlob \in Nat

ASSUME MsgAssumption ==
    \A m \in Msg : m.len \in Nat /\ m.ext \in Nat /\ m.id # Torn

\* A process has one role on a ring, and a role several processes share is
\* locked (defaultworker.cpp sets locktype_ when max_proc_num_ > 1).
ASSUME RoleAssumption ==
    /\ Producers \cap Consumers = {}
    /\ NoOne \notin Procs
    /\ Nil \notin Msg
    /\ LockType \subseteq Roles
    /\ "producer" \in LockType \/ \A p, r \in Producers : p = r
    /\ "consumer" \in LockType \/ \A c, d \in Consumers : c = d

VARIABLES
    head, tail,  \* *head_ and *tail_
    block,       \* block_[0 .. blocksize_ - 1]
    mutex,       \* mutex[r]: who holds the lock of role r
    pc,          \* pc[p]: the next access of p to shared memory
    reg,         \* reg[p]: the local copies of head and tail
    blob,        \* blob[p]: the blob p sends, or the one it is filling
    q,           \* history: the published messages and where each begins
    got          \* history: what comsume() returned last, per consumer

shared == <<head, tail, block>>
vars == <<head, tail, block, mutex, pc, reg, blob, q, got>>
------------------------------------------------------------------------------
(* Positions and lengths in the ring.                                      *)

DataLen(m) == m.len + m.ext
TotalLen(m) == HeadSize + DataLen(m)

\* Mutants: the byte that keeps a full ring apart from an empty one is given
\* away (free_len < total_len), and the case head > tail is forgotten.
FreeLen_LastByte(h, t) == 1 + (IF h > t THEN h - t ELSE h + BlockSize - t)
FreeLen_NoWrap(h, t) == h + BlockSize - t

FreeLen(h, t) == IF h > t THEN h - t ELSE h + BlockSize - t
UsedLen(h, t) == IF t > h THEN t - h ELSE t + BlockSize - h

\* getstat(): usedlen_, which unlike UsedLen is 0 for an empty ring.
StatUsedLen(h, t) == IF t >= h THEN t - h ELSE t + BlockSize - h

\* The offset of cell i in an image copied from position t on, which goes on
\* at cell 0 after the last cell.
Offset(t, i) == IF i >= t THEN i - t ELSE i + (BlockSize - t)

\* Mutant: every message is taken to end inside the block.
NewTail_NoWrap(cur, t, m) == cur + TotalLen(m)

\* *tail_ after the message: the four ways enqueue() splits its copies. The
\* first adds to the shared word, cur, the others start from the local one.
NewTail(cur, t, m) ==
    LET tail_len == BlockSize - t
    IN  IF tail_len >= TotalLen(m)
        THEN cur + TotalLen(m)
        ELSE IF tail_len >= HeadSize
             THEN t + TotalLen(m) - BlockSize
             ELSE (HeadSize - tail_len) + DataLen(m)

\* Where dequeue_i() looks for the data of the message whose header is at h.
DataPos(h) ==
    IF h + HeadSize > BlockSize
    THEN HeadSize - (BlockSize - h)
    ELSE IF h + HeadSize = BlockSize THEN 0 ELSE h + HeadSize

\* Mutant: the extension data is left out where the data wraps.
NewHead_NoExt(h, m) ==
    LET end == DataPos(h) + DataLen(m)
    IN  IF end > BlockSize THEN end - BlockSize - m.ext ELSE end

\* *head_ after the message: data or extension wraps, or neither.
NewHead(h, m) ==
    LET end == DataPos(h) + DataLen(m)
    IN  IF end > BlockSize THEN end - BlockSize ELSE end

\* Mutant: the last byte is not copied.
CopyIn_Short(t, m, lo, hi) ==
    [i \in Cells |-> IF lo <= Offset(t, i) /\ Offset(t, i) < hi - 1
                     THEN <<m, Offset(t, i)>> ELSE block[i]]

\* block after bytes lo .. hi - 1 of m are copied in, the image starting at t.
CopyIn(t, m, lo, hi) ==
    [i \in Cells |-> IF lo <= Offset(t, i) /\ Offset(t, i) < hi
                     THEN <<m, Offset(t, i)>> ELSE block[i]]

\* Bytes 0 .. n - 1 from position t on are bytes from .. from + n - 1 of m.
Holds(t, m, from, n) ==
    \A i \in Cells : Offset(t, i) < n => block[i] = <<m, from + Offset(t, i)>>

\* What a header at h decodes to. A header not written by one enqueue gives
\* any lengths, as the bytes of some other message's payload would.
Heads(h) ==
    LET whole == {m \in Msg : Holds(h, m, 0, HeadSize)}
    IN  IF whole # {} THEN whole
        ELSE [len : 0 .. BlockSize, ext : {0}, id : {Torn}]
------------------------------------------------------------------------------
Goto(p, l) == pc' = [pc EXCEPT ![p] = l]

\* Mutant: locktype_ is ignored.
Lock_None(r, p) == UNCHANGED mutex

\* pthread_mutex_lock, for a role that is locked.
Lock(r, p) ==
    IF r \in LockType
    THEN mutex[r] = NoOne /\ mutex' = [mutex EXCEPT ![r] = p]
    ELSE UNCHANGED mutex

\* pthread_mutex_unlock and return: the locals are gone.
Unlock(r, p) ==
    /\ pc[p] = "unlock"
    /\ Goto(p, "idle")
    /\ mutex' = IF r \in LockType THEN [mutex EXCEPT ![r] = NoOne] ELSE mutex
    /\ reg' = [reg EXCEPT ![p] = [head |-> 0, tail |-> 0]]
    /\ blob' = [blob EXCEPT ![p] = Nil]
    /\ UNCHANGED <<shared, q, got>>

\* The first getmemory() creates the segment, init() clears head and tail.
Init ==
    /\ head = 0 /\ tail = 0
    /\ block = [i \in Cells |-> <<Nil, 0>>]
    /\ mutex = [r \in Roles |-> NoOne]
    /\ pc = [p \in Procs |-> "idle"]
    /\ reg = [p \in Procs |-> [head |-> 0, tail |-> 0]]
    /\ blob = [p \in Procs |-> Nil]
    /\ q = << >>
    /\ got = [c \in Consumers |-> Nil]
------------------------------------------------------------------------------
(* produce() -> enqueue()                                                  *)

Produce(p) ==
    /\ pc[p] = "idle"
    /\ Lock("producer", p)
    /\ Goto(p, "load")
    /\ \E m \in Msg : blob' = [blob EXCEPT ![p] = m]
    /\ UNCHANGED <<shared, reg, q, got>>

\* No room: COMMU_ERR_MQFULL.
EnqFull(p) ==
    /\ pc[p] = "load"
    /\ FreeLen(head, tail) <= TotalLen(blob[p])
    /\ Goto(p, "unlock")
    /\ UNCHANGED <<shared, mutex, reg, blob, q, got>>

EnqLoad(p) ==
    /\ pc[p] = "load"
    /\ FreeLen(head, tail) > TotalLen(blob[p])
    /\ reg' = [reg EXCEPT ![p] = [head |-> head, tail |-> tail]]
    /\ Goto(p, "copy_head")
    /\ UNCHANGED <<shared, mutex, blob, q, got>>

EnqCopyHead(p) ==
    /\ pc[p] = "copy_head"
    /\ block' = CopyIn(reg[p].tail, blob[p], 0, HeadSize)
    /\ Goto(p, "copy_data")
    /\ UNCHANGED <<head, tail, mutex, reg, blob, q, got>>

EnqCopyData(p) ==
    /\ pc[p] = "copy_data"
    /\ block' = CopyIn(reg[p].tail, blob[p], HeadSize, TotalLen(blob[p]))
    /\ Goto(p, "publish")
    /\ UNCHANGED <<head, tail, mutex, reg, blob, q, got>>

EnqPublish(p) ==
    /\ pc[p] = "publish"
    /\ tail' = NewTail(tail, reg[p].tail, blob[p])
    /\ q' = Append(q, [msg |-> blob[p], at |-> reg[p].tail])
    /\ Goto(p, "unlock")
    /\ UNCHANGED <<head, block, mutex, reg, blob, got>>

ProducerStep(p) ==
    \/ Produce(p)
    \/ EnqFull(p)
    \/ EnqLoad(p)
    \/ EnqCopyHead(p)
    \/ EnqCopyData(p)
    \/ EnqPublish(p)
    \/ Unlock("producer", p)
------------------------------------------------------------------------------
(* comsume() -> dequeue() -> dequeue_i()                                   *)

Comsume(c) ==
    /\ pc[c] = "idle"
    /\ Lock("consumer", c)
    /\ Goto(c, "load")
    /\ UNCHANGED <<shared, reg, blob, q, got>>

\* Mutant: the test for an empty ring forgets that the tail may be behind.
DeqEmpty_Behind(c) ==
    /\ pc[c] = "load"
    /\ head >= tail
    /\ Goto(c, "unlock")
    /\ UNCHANGED <<shared, mutex, reg, blob, q, got>>

\* Nothing there: COMMU_ERR_MQEMPTY.
DeqEmpty(c) ==
    /\ pc[c] = "load"
    /\ head = tail
    /\ Goto(c, "unlock")
    /\ UNCHANGED <<shared, mutex, reg, blob, q, got>>

DeqLoad(c) ==
    /\ pc[c] = "load"
    /\ head # tail
    /\ reg' = [reg EXCEPT ![c] = [head |-> head, tail |-> tail]]
    /\ Goto(c, "read_head")
    /\ UNCHANGED <<shared, mutex, blob, q, got>>

\* assert(total_len <= used_len && ...)
LengthsFit(r, m) == TotalLen(m) <= UsedLen(r.head, r.tail)

\* The header is copied out and its lengths are taken from it. When they do not
\* fit, the assertion aborts the process, with the mutex in its hands. When the
\* data is too long for the caller, COMMU_ERR_OTFBUFF leaves *head_ as it is.
DeqReadHead(c) ==
    /\ pc[c] = "read_head"
    /\ \E m \in Heads(reg[c].head) :
        /\ blob' = [blob EXCEPT ![c] = m]
        /\ Goto(c, IF ~LengthsFit(reg[c], m) THEN "aborted"
                   ELSE IF m.len > MaxBlob THEN "unlock"
                   ELSE "read_data")
    /\ UNCHANGED <<shared, mutex, reg, q, got>>

\* Data and extension data are copied out.
DeqReadData(c) ==
    /\ pc[c] = "read_data"
    /\ blob' = IF Holds(DataPos(reg[c].head), blob[c], HeadSize, DataLen(blob[c]))
               THEN blob
               ELSE [blob EXCEPT ![c].id = Torn]
    /\ Goto(c, "release")
    /\ UNCHANGED <<shared, mutex, reg, q, got>>

DeqRelease(c) ==
    /\ pc[c] = "release"
    /\ head' = NewHead(reg[c].head, blob[c])
    /\ q' = IF q = << >> THEN q ELSE Tail(q)

\* In time: dequeue() returns 0 and the caller has the message.
DeqReturn(c) ==
    /\ DeqRelease(c)
    /\ got' = [got EXCEPT ![c] = blob[c]]
    /\ Goto(c, "unlock")
    /\ UNCHANGED <<tail, block, mutex, reg, blob>>

\* Older than msg_timeout_: dequeue() goes for the next one.
DeqExpired(c) ==
    /\ Expiry
    /\ DeqRelease(c)
    /\ Goto(c, "load")
    /\ UNCHANGED <<tail, block, mutex, reg, blob, got>>

ConsumerStep(c) ==
    \/ Comsume(c)
    \/ DeqEmpty(c)
    \/ DeqLoad(c)
    \/ DeqReadHead(c)
    \/ DeqReadData(c)
    \/ DeqReturn(c)
    \/ DeqExpired(c)
    \/ Unlock("consumer", c)
------------------------------------------------------------------------------
Next ==
    \/ \E p \in Producers : ProducerStep(p)
    \/ \E c \in Consumers : ConsumerStep(c)

Spec == Init /\ [][Next]_vars
------------------------------------------------------------------------------
(* Properties.                                                             *)

ProducerPCs == {"idle", "load", "copy_head", "copy_data", "publish", "unlock"}
ConsumerPCs ==
    {"idle", "load", "read_head", "read_data", "release", "unlock", "aborted"}

\* The words of the ring stay inside it, and locals and history have the types
\* the actions rely on.
TypeOK ==
    /\ head \in 0 .. BlockSize /\ tail \in 0 .. BlockSize
    /\ block \in [Cells -> (Msg \cup {Nil}) \X Nat]
    /\ mutex \in [Roles -> Procs \cup {NoOne}]
    /\ pc \in [Procs -> ProducerPCs \cup ConsumerPCs]
    /\ \A p \in Producers : pc[p] \in ProducerPCs
    /\ \A c \in Consumers : pc[c] \in ConsumerPCs
    /\ reg \in [Procs -> [head : 0 .. BlockSize, tail : 0 .. BlockSize]]
    /\ blob \in [Procs -> Msg \cup {Nil}]
    /\ q \in Seq([msg : Msg, at : 0 .. BlockSize])
    /\ got \in [Consumers -> Msg \cup {Nil}]

\* The assertion of dequeue_i() never aborts a consumer: whatever the producers
\* are doing, the header found at head describes a message that lies between
\* head and the tail the consumer has loaded.
AssertionHolds == \A c \in Consumers : pc[c] # "aborted"

\* Every message that was published and not taken yet is in the ring byte for
\* byte, while producers copy the next one into the free space.
PendingIntact ==
    \A n \in 1 .. Len(q) : Holds(q[n].at, q[n].msg, 0, TotalLen(q[n].msg))

\* The ring looks empty exactly when nothing is pending: *tail_ never catches
\* up with *head_ from behind, which would lose a ring full of messages, and
\* never stays apart from it, which would deliver bytes nobody sent.
EmptyMeansEmpty == (head = tail) <=> (q = << >>)

\* No step writes into a byte of a pending message, and no step other than
\* taking the first one forgets a message.
PendingUntouched ==
    [][ /\ \A n \in 1 .. Len(q), i \in Cells :
             Offset(q[n].at, i) < TotalLen(q[n].msg) => block'[i] = block[i]
        /\ Len(q') < Len(q) => q' = Tail(q) ]_vars

\* Seen from outside, the ring is the FIFO of ShmFifo: what comsume() returns
\* is the oldest message, whole, and each message is returned once.
Messages(s) == [n \in 1 .. Len(s) |-> s[n].msg]
Fifo == INSTANCE ShmFifo WITH fifo <- Messages(q)
ImplementsFifo == Fifo!Spec

\* The head never stays in one place for ever while the ring has a message that
\* dequeue() can return. (One longer than MAX_BLOB_DATA_LEN is never removed.)
HeadMoves ==
    \A h \in 0 .. BlockSize :
        []<>( \/ head # h
             \/ q = << >>
             \/ q[1].msg.len > MaxBlob )
==============================================================================
