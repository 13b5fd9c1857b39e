------------------------------- MODULE MemPool -------------------------------
(***************************************************************************)
(* The memory pool of a server process (CMemPool, mempool.cpp), as         *)
(* operators on a record: the blocks of each block size that the heap has  *)
(* given out, the free ones among them, and the size of all of them.  The  *)
(* blocks of a size are numbered.  Sizes are scaled down: BlockUnit stands *)
(* for 1024.  The heap itself does not run out.                            *)
(*                                                                         *)
(* _stub, the blocks ever made of a size, keeps the addresses of those     *)
(* that were released.  How many it counts depends on which addresses the  *)
(* heap gives out again: any number from the live ones on.  An operation   *)
(* has the set `stale' of the sizes for which they are so many that the    *)
(* free blocks are less than half of them.                                 *)
(***************************************************************************)
EXTENDS Integers, Sequences, FiniteSets, FiniteSetsExt, SequencesExt

CONSTANTS
    Index,         \* the numbers of the blocks of a size, from 1 on
    BlockUnit,     \* the smallest block, 1024
    Shifts,        \* the largest block is BlockUnit * 2^Shifts
    ExtendSet,     \* C_EXTEND_SET
    Slot1, Slot2,  \* C_SLOT_1, C_SLOT_2
    PoolMax,       \* C_MAX_POOL_SIZE
    WaterMax       \* C_MAX_WATER_MARK

AllocCapacity == 2 * Slot2

SizeAt(i) == BlockUnit * 2^i

BlockSize == {SizeAt(i) : i \in 0 .. Shifts}

ASSUME PoolAssumption == /\ Index \in SUBSET Nat /\ IsFiniteSet(Index)
                         /\ BlockSize \subseteq Nat \ {0} /\ Shifts \in Nat
                         /\ ExtendSet \in Nat \ {0} /\ Slot1 \in Nat /\ Slot2 \in Nat
                         /\ PoolMax \in Nat /\ WaterMax \in Nat

EmptyPool == [free |-> [s \in BlockSize |-> {}], live |-> [s \in BlockSize |-> {}],
              allocated |-> 0]

\* Which block is taken, made or released makes no difference: those with the
\* lowest numbers.
Lowest(S, n) == {a \in S : Cardinality({b \in S : b < a}) < n}

\* the least power of two that is more than the size
fit_block_size(n) == Min({s \in BlockSize : n < s})

fit_extend_set(s) == IF s < Slot1 THEN ExtendSet
                     ELSE IF s < Slot2 THEN AllocCapacity \div s
                     ELSE 1

\* how many free blocks are to be given back to the heap
release_count(p, s, water, stale) ==
    LET nfree == Cardinality(p.free[s])
        half  == nfree >= Cardinality(p.live[s]) \div 2 /\ s \notin stale
    IN  IF nfree * s < Slot1 THEN 0
        ELSE IF s > Slot2 THEN IF nfree > 1 THEN nfree \div 2 ELSE nfree
        ELSE IF half \/ nfree * s >= water THEN nfree \div 2
        ELSE 0

ToRelease(p, s, water, stale) == Lowest(p.free[s], release_count(p, s, water, stale))

\* mutant of GiveBack: the size of all blocks is not reduced
GiveBack_Uncounted(p, s, gone) == [p EXCEPT !.free[s] = @ \ gone, !.live[s] = @ \ gone]

GiveBack(p, s, gone) == [p EXCEPT !.free[s] = @ \ gone, !.live[s] = @ \ gone,
                                  !.allocated = @ - s * Cardinality(gone)]

release(p, s, water, stale) == GiveBack(p, s, ToRelease(p, s, water, stale))

\* the pool when the sizes from the largest down to the i-th have been purged: each
\* from half of Slot1 on, until enough is released; the water mark is AllocCapacity
Purged(p, need, stale) ==
    LET left[i \in 0 .. Shifts + 1] ==
          IF i = Shifts + 1 THEN p
          ELSE LET q == left[i + 1]
               IN  IF SizeAt(i) >= Slot1 \div 2 /\ p.allocated - q.allocated < need
                   THEN release(q, SizeAt(i), AllocCapacity, stale) ELSE q
    IN  left

release_size(p, need, stale) ==
    LET q == Purged(p, need, stale)[0]
    IN  [ok |-> p.allocated - q.allocated >= need, pool |-> q]

\* n new blocks of a size
extend_new_size(p, s, n) ==
    LET new == Lowest(Index \ p.live[s], n)
    IN  [p EXCEPT !.free[s] = @ \cup new, !.live[s] = @ \cup new, !.allocated = @ + s * n]

\* new blocks of a size, if the pool may have them
extend(p, s, stale) ==
    LET n == fit_extend_set(s)
        made(r) == IF ~r.ok THEN r
                   ELSE [r EXCEPT !.pool = extend_new_size(@, s, n)]
        room(need) == IF need >= 0 THEN release_size(p, need, stale)
                      ELSE [ok |-> TRUE, pool |-> p]
    IN  made(room(p.allocated + s * n - PoolMax))

NoBlock == [num |-> 0, size |-> 0]

\* a free block of its size, which is extended when it has none; no block if
\* that fails
allocate(p, n, stale) ==
    LET take(q, s, a) == [block |-> [num |-> a, size |-> s],
                          pool |-> [q EXCEPT !.free[s] = @ \ {a}]]
        from(e, s) == IF e.ok THEN take(e.pool, s, Min(e.pool.free[s]))
                      ELSE [block |-> NoBlock, pool |-> e.pool]
        of(s) == from(IF p.free[s] = {} THEN extend(p, s, stale)
                      ELSE [ok |-> TRUE, pool |-> p], s)
    IN  of(fit_block_size(n))

\* the block is free again, and some of the free ones may be released; a block
\* that is not one of the pool's is left alone
recycle(p, b, stale) ==
    IF b.num \in p.live[b.size]
    THEN release([p EXCEPT !.free[b.size] = @ \cup {b.num}], b.size, WaterMax, stale)
    ELSE p
=============================================================================
