------------------------- MODULE ShmMQRestartProofs -------------------------
(***************************************************************************)
(* Proofs about ShmMQRestart, for a ring with one producer and one         *)
(* consumer that die and are started again any number of times, between    *)
(* any two of their accesses. With more processes of a role the theorems   *)
(* fail: the mutex a new process initialises may be held by another one.   *)
(*                                                                         *)
(* A process that is down is one that is idle: under this mapping, Ring,   *)
(* the invariant of ShmMQProofs is the invariant of the ring with crashes. *)
(***************************************************************************)
EXTENDS ShmMQRestart, TLAPS

\* One process of each role: the proxy, and a group of one worker.
OneEach == /\ \A p, r \in Producers : p = r
           /\ \A c, d \in Consumers : c = d

\* Every message carries data or extension data.
NonEmptyMsg == \A m \in Msg : DataLen(m) >= 1

PcUp == [p \in Procs |-> IF pc[p] = "down" THEN "idle" ELSE pc[p]]

Ring == INSTANCE ShmMQProofs WITH pc <- PcUp

PcOK == pc \in [Procs -> ProducerPCs \cup ConsumerPCs \cup {"down"}]

RInv == PcOK /\ Ring!IInv
------------------------------------------------------------------------------
(* The mapping.                                                            *)

\* The processes and the roles are those of the ring without crashes.
LEMMA SameProcs == Ring!Procs = Procs /\ Ring!Roles = Roles
BY DEF Ring!Procs, Ring!Roles, Procs, Roles

\* Where a process is that is not down.
LEMMA PcUpAt ==
    ASSUME PcOK, NEW p \in Procs
    PROVE  /\ pc[p] # "down" => PcUp[p] = pc[p]
           /\ pc[p] = "down" => PcUp[p] = "idle"
BY DEF PcUp

\* A process that goes on, or disappears.
LEMMA GotoUp ==
    ASSUME PcOK, NEW p \in Procs, NEW l \in ProducerPCs \cup ConsumerPCs \cup {"down"}, Goto(p, l)
    PROVE  PcOK' /\ Ring!Goto(p, IF l = "down" THEN "idle" ELSE l)
<1>1. PcOK'
  BY DEF PcOK, Goto
<1>2. PcUp' = [PcUp EXCEPT ![p] = IF l = "down" THEN "idle" ELSE l]
  BY DEF PcOK, Goto, PcUp
<1> QED BY <1>1, <1>2 DEF Ring!Goto

\* A step of a producer is one of a producer of the ring.
LEMMA ProducerUp ==
    ASSUME PcOK, NEW p \in Producers, ProducerStep(p)
    PROVE  PcOK' /\ Ring!ProducerStep(p)
<1> p \in Procs
  BY DEF Procs
<1> USE SameProcs DEF shared, Ring!shared, ProducerPCs
<1>1. CASE Produce(p)
  BY <1>1, PcUpAt, GotoUp DEF Produce, Ring!Produce, Lock, Ring!Lock, Ring!ProducerStep
<1>2. CASE EnqFull(p)
  BY <1>2, PcUpAt, GotoUp DEF EnqFull, Ring!EnqFull, FreeLen, Ring!FreeLen, TotalLen, Ring!TotalLen,
     DataLen, Ring!DataLen, Ring!ProducerStep
<1>3. CASE EnqLoad(p)
  BY <1>3, PcUpAt, GotoUp DEF EnqLoad, Ring!EnqLoad, FreeLen, Ring!FreeLen, TotalLen, Ring!TotalLen,
     DataLen, Ring!DataLen, Ring!ProducerStep
<1>4. CASE EnqCopyHead(p)
  BY <1>4, PcUpAt, GotoUp DEF EnqCopyHead, Ring!EnqCopyHead, CopyIn, Ring!CopyIn, Cells, Ring!Cells,
     Offset, Ring!Offset, Ring!ProducerStep
<1>5. CASE EnqCopyData(p)
  BY <1>5, PcUpAt, GotoUp DEF EnqCopyData, Ring!EnqCopyData, CopyIn, Ring!CopyIn, Cells, Ring!Cells,
     Offset, Ring!Offset, TotalLen, Ring!TotalLen, DataLen, Ring!DataLen, Ring!ProducerStep
<1>6. CASE EnqPublish(p)
  BY <1>6, PcUpAt, GotoUp DEF EnqPublish, Ring!EnqPublish, NewTail, Ring!NewTail,
     TotalLen, Ring!TotalLen, DataLen, Ring!DataLen, Ring!ProducerStep
<1>7. CASE Unlock("producer", p)
  BY <1>7, PcUpAt, GotoUp DEF Unlock, Ring!Unlock, Ring!ProducerStep
<1> QED BY <1>1, <1>2, <1>3, <1>4, <1>5, <1>6, <1>7 DEF ProducerStep

\* A step of a consumer is one of a consumer of the ring.
LEMMA ConsumerUp ==
    ASSUME PcOK, NEW c \in Consumers, ConsumerStep(c)
    PROVE  PcOK' /\ Ring!ConsumerStep(c)
<1> c \in Procs
  BY DEF Procs
<1> USE SameProcs DEF shared, Ring!shared, ConsumerPCs
<1>1. CASE Comsume(c)
  BY <1>1, PcUpAt, GotoUp DEF Comsume, Ring!Comsume, Lock, Ring!Lock, Ring!ConsumerStep
<1>2. CASE DeqEmpty(c)
  BY <1>2, PcUpAt, GotoUp DEF DeqEmpty, Ring!DeqEmpty, Ring!ConsumerStep
<1>3. CASE DeqLoad(c)
  BY <1>3, PcUpAt, GotoUp DEF DeqLoad, Ring!DeqLoad, Ring!ConsumerStep
<1>4. CASE DeqReadHead(c)
  BY <1>4, PcUpAt, GotoUp DEF DeqReadHead, Ring!DeqReadHead, Heads, Ring!Heads, Holds, Ring!Holds,
     Offset, Ring!Offset, Cells, Ring!Cells, LengthsFit, Ring!LengthsFit, TotalLen, Ring!TotalLen,
     DataLen, Ring!DataLen, UsedLen, Ring!UsedLen, Ring!ConsumerStep
<1>5. CASE DeqReadData(c)
  BY <1>5, PcUpAt, GotoUp DEF DeqReadData, Ring!DeqReadData, Holds, Ring!Holds, DataPos, Ring!DataPos,
     Offset, Ring!Offset, Cells, Ring!Cells, DataLen, Ring!DataLen, Ring!ConsumerStep
<1>6. ASSUME DeqRelease(c) PROVE pc[c] = "release" /\ Ring!DeqRelease(c)
  BY <1>6, PcUpAt DEF DeqRelease, Ring!DeqRelease, NewHead, Ring!NewHead, DataPos, Ring!DataPos,
     DataLen, Ring!DataLen
<1>7. CASE DeqReturn(c)
  BY <1>6, <1>7, GotoUp DEF DeqReturn, Ring!DeqReturn, Ring!ConsumerStep
<1>8. CASE DeqExpired(c)
  BY <1>6, <1>8, GotoUp DEF DeqExpired, Ring!DeqExpired, Ring!ConsumerStep
<1>9. CASE Unlock("consumer", c)
  BY <1>9, PcUpAt, GotoUp DEF Unlock, Ring!Unlock, Ring!ConsumerStep
<1> QED BY <1>1, <1>2, <1>3, <1>4, <1>5, <1>7, <1>8, <1>9 DEF ConsumerStep

\* A step that is neither a crash nor a start is one of the ring.
LEMMA NextUp ==
    ASSUME PcOK, Next
    PROVE  PcOK' /\ Ring!Next
BY ProducerUp, ConsumerUp DEF Next, Ring!Next

------------------------------------------------------------------------------
(* The invariant with crashes and starts.                                  *)

\* The ring of the first process satisfies it.
LEMMA InitRInv == RInit => RInv
<1> SUFFICES ASSUME RInit PROVE RInv
  OBVIOUS
<1>1. PcOK /\ PcUp = [p \in Procs |-> "idle"]
  BY DEF RInit, Init, PcOK, PcUp, ProducerPCs
<1>2. Ring!Init
  BY <1>1, SameProcs DEF RInit, Init, Ring!Init, Cells, Ring!Cells
<1>3. Ring!IInv
  BY <1>2, Ring!InitIInv, SameProcs, SizeAssumption, MsgAssumption, RoleAssumption
<1> QED BY <1>1, <1>3 DEF RInv

\* A step of the ring, or none, keeps it.
LEMMA NextRInv ==
    ASSUME NonEmptyMsg, RInv, PcOK', [Ring!Next]_(Ring!vars)
    PROVE  RInv'
<1>1. Ring!NonEmpty
  BY DEF NonEmptyMsg, Ring!NonEmpty, DataLen, Ring!DataLen
<1>2. Ring!IInv'
  BY <1>1, Ring!NextIInv, SameProcs, SizeAssumption, MsgAssumption, RoleAssumption DEF RInv
<1> QED BY <1>2 DEF RInv

\* A process that dies forgets what it had loaded and was copying; no more.
LEMMA CrashRInv ==
    ASSUME RInv, NEW p \in Procs, Crash(p)
    PROVE  RInv'
<1>1. PcOK' /\ Ring!Goto(p, "idle")
  BY GotoUp DEF RInv, Crash
<1>2. /\ reg' = [reg EXCEPT ![p] = [head |-> 0, tail |-> 0]]
      /\ blob' = [blob EXCEPT ![p] = Nil] /\ UNCHANGED <<Ring!shared, mutex, q, got>>
  BY DEF Crash, shared, Ring!shared
<1>3. Ring!IInv'
  BY <1>1, <1>2, Ring!ForgetStep, SameProcs, SizeAssumption, MsgAssumption, RoleAssumption DEF RInv
<1> QED BY <1>1, <1>3 DEF RInv

\* A process that starts finds the ring as it is, and initialises a mutex that nobody
\* holds but the one before it.
LEMMA StartRInv ==
    ASSUME OneEach, NonEmptyMsg, RInv, NEW p \in Procs, Start(p)
    PROVE  RInv'
<1> DEFINE r == RoleOf(p)
<1>1. PcOK' /\ Ring!Goto(p, "idle")
  BY GotoUp DEF RInv, Start, ProducerPCs
<1>2. PcUp' = PcUp /\ PcUp[p] = "idle"
  BY <1>1, PcUpAt DEF Ring!Goto, Start, PcUp, RInv
<1>3. UNCHANGED <<Ring!shared, reg, blob, q, got>>
      /\ mutex' = IF r \in LockType THEN [mutex EXCEPT ![r] = NoOne] ELSE mutex
  BY DEF Start, shared, Ring!shared, LockInit
<1>4. CASE r \notin LockType
  <2>1. UNCHANGED Ring!vars
    BY <1>2, <1>3, <1>4 DEF Ring!vars, Ring!shared
  <2> QED BY <1>1, <2>1, NextRInv
<1>5. CASE r \in LockType
  <2>1. r \in Ring!Roles
    BY SameProcs DEF Roles, RoleOf
  <2>2. r = "producer" => \A e \in Producers : PcUp[e] = "idle"
    BY <1>2 DEF OneEach, RoleOf
  <2>3. r = "consumer" => \A e \in Consumers : PcUp[e] = "idle"
    BY <1>2 DEF OneEach, RoleOf, Procs
  <2>4. mutex' = [mutex EXCEPT ![r] = NoOne] /\ UNCHANGED <<Ring!shared, PcUp, reg, blob, q, got>>
    BY <1>2, <1>3, <1>5
  <2> HIDE DEF r
  <2>5. Ring!IInv'
    BY <2>1, <2>2, <2>3, <2>4, Ring!FreeStep, SameProcs, SizeAssumption, MsgAssumption, RoleAssumption
       DEF RInv
  <2> QED BY <1>1, <2>5 DEF RInv
<1> QED BY <1>4, <1>5

\* Every step keeps it.
LEMMA StepRInv ==
    ASSUME OneEach, NonEmptyMsg, RInv, [RNext]_rvars
    PROVE  RInv'
<1>1. CASE Next
  <2>1. PcOK' /\ Ring!Next
    BY <1>1, NextUp DEF RInv
  <2> QED BY <2>1, NextRInv
<1>2. CASE UNCHANGED vars
  <2>1. PcOK' /\ UNCHANGED Ring!vars
    BY <1>2 DEF vars, Ring!vars, RInv, PcOK, PcUp
  <2> QED BY <2>1, NextRInv
<1>3. CASE \E p \in Procs : Crash(p) \/ Start(p)
  BY <1>3, CrashRInv, StartRInv
<1> QED BY <1>1, <1>2, <1>3 DEF RNext, rvars
------------------------------------------------------------------------------
(* The theorems.                                                           *)

\* The invariant holds throughout.
THEOREM RestartInvariance ==
    ASSUME OneEach, NonEmptyMsg
    PROVE  RSpec => []RInv
<1>1. RInit => RInv
  BY InitRInv
<1>2. RInv /\ [RNext]_rvars => RInv'
  BY StepRInv
<1> QED BY <1>1, <1>2, PTL DEF RSpec

\* A consumer that comes upon a ring whose processes died anywhere finds whole messages:
\* dequeue_i()'s assertion never fires.
THEOREM AssertionSafe ==
    ASSUME OneEach, NonEmptyMsg
    PROVE  RSpec => []AssertionHolds
<1>1. RInv => AssertionHolds
  <2> SUFFICES ASSUME RInv, NEW c \in Consumers PROVE pc[c] # "aborted"
    BY DEF AssertionHolds
  <2>1. PcUp[c] # "aborted" /\ c \in Procs
    BY DEF RInv, Ring!IInv, Ring!ConsumerAt, Procs
  <2> QED BY <2>1, PcUpAt DEF RInv
<1> QED BY <1>1, RestartInvariance, PTL

\* What was published before a crash stays in the ring as it was written, what a process was
\* copying when it died is seen by nobody, and head = tail still means that nothing is there.
THEOREM RestartSafe ==
    ASSUME OneEach, NonEmptyMsg
    PROVE  RSpec => []OnlyWholeMessages
<1>1. RInv => OnlyWholeMessages
  <2> SUFFICES ASSUME RInv PROVE OnlyWholeMessages
    OBVIOUS
  <2>1. PendingIntact
    BY DEF RInv, Ring!IInv, Ring!PendingIntact, PendingIntact, Holds, Ring!Holds, Offset, Ring!Offset,
       Cells, Ring!Cells, TotalLen, Ring!TotalLen, DataLen, Ring!DataLen
  <2>2. EmptyMeansEmpty
    BY Ring!EmptyTest, SameProcs, SizeAssumption, MsgAssumption, RoleAssumption
       DEF RInv, EmptyMeansEmpty, Ring!EmptyMeansEmpty
  <2> QED BY <2>1, <2>2 DEF OnlyWholeMessages
<1> QED BY <1>1, RestartInvariance, PTL

\* With crashes and restarts the ring is still the FIFO of messages: nothing that was published
\* is lost, and nothing that was taken comes again.
THEOREM RestartRefines ==
    ASSUME OneEach, NonEmptyMsg
    PROVE  RSpec => RestartKeepsFifo
<1>1. RInit => Fifo!Init
  BY DEF RInit, Init, Fifo!Init, Messages
<1>2. RInv /\ [RNext]_rvars => [Fifo!Next]_(Fifo!vars)
  <2> SUFFICES ASSUME RInv, [RNext]_rvars PROVE [Fifo!Next]_(Fifo!vars)
    OBVIOUS
  <2>1. CASE Next
    <3>1. Ring!Next
      BY <2>1, NextUp DEF RInv
    <3>2. [Ring!Fifo!Next]_(Ring!Fifo!vars)
      BY <3>1, Ring!StepOfFifo, SameProcs, SizeAssumption, MsgAssumption, RoleAssumption DEF RInv
    <3> QED BY <3>2 DEF Fifo!Next, Fifo!vars, Ring!Fifo!Next, Ring!Fifo!vars, Fifo!Send, Ring!Fifo!Send,
          Fifo!Receive, Ring!Fifo!Receive, Fifo!Expire, Ring!Fifo!Expire, Messages, Ring!Messages
  <2>2. CASE UNCHANGED <<q, got>>
    BY <2>2 DEF Fifo!vars, Messages
  <2> QED BY <2>1, <2>2 DEF RNext, rvars, vars, Crash, Start
<1> QED BY <1>1, <1>2, RestartInvariance, PTL DEF RSpec, RestartKeepsFifo, ImplementsFifo, Fifo!Spec
==============================================================================
