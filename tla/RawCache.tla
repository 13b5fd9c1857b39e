------------------------------ MODULE RawCache ------------------------------
(***************************************************************************)
(* The caches of the connections (CRawCache, cache.cpp) over the memory    *)
(* pool they share.  A cache holds one block of the pool and in it the     *)
(* bytes from _data_head on, _data_len of them.  The bytes appended to a   *)
(* cache are numbered modulo ByteMod, so that a byte that is lost, doubled *)
(* or out of place is noticed.                                             *)
(***************************************************************************)
EXTENDS MemPool

CONSTANTS
    Cache,       \* the caches: _r and _w of the connections
    ByteMod,     \* the values of a byte
    MaxData,     \* bound on the data of a cache
    Lengths      \* the lengths of what is appended and skipped

VARIABLES
    pool,    \* the memory pool
    cache,   \* the caches
    mem,     \* the bytes of each block in use; -1 is a byte nobody has written
    want     \* what was appended to each cache and not skipped

cacheVars == <<pool, cache, mem, want>>

\* The heap has enough blocks for the caches and one extension more; the largest
\* block is large enough for a cache.
ASSUME CacheAssumption ==
    /\ IsFiniteSet(Cache) /\ ByteMod \in Nat \ {0} /\ MaxData \in Nat /\ Lengths \subseteq Nat
    /\ \A s \in BlockSize : Cardinality(Cache) + fit_extend_set(s) <= Cardinality(Index)
    /\ \E s \in BlockSize : MaxData < s

NoCache == [block |-> NoBlock, head |-> 0, len |-> 0]

CacheInit == /\ pool = EmptyPool
             /\ cache = [c \in Cache |-> NoCache]
             /\ mem = [b \in [num : Index, size : BlockSize] |-> <<>>]
             /\ want = [c \in Cache |-> <<>>]

\* the block b with data d from offset k on (memcpy, memmove)
Copied(b, k, d) == [i \in DOMAIN b |-> IF i > k /\ i <= k + Len(d) THEN d[i - k] ELSE b[i]]

Unwritten(n) == [i \in 1 .. n |-> -1]

data(x) == [i \in 1 .. x.len |-> IF x.head + i \in DOMAIN mem[x.block]
                                 THEN mem[x.block][x.head + i] ELSE -1]

\* what follows the last byte of a cache
NextBytes(c, n) ==
    LET from == IF want[c] = <<>> THEN 0 ELSE Last(want[c]) + 1
    IN  [i \in 1 .. n |-> (from + i - 1) % ByteMod]

Empty(c) == cache[c].block = NoBlock

\* a block that has been taken gets the data d; without one the append throws
Filled(c, block, m, d, n) ==
    /\ mem' = [m EXCEPT ![block] = Copied(Unwritten(block.size), 0, d)]
    /\ cache' = [cache EXCEPT ![c] = [block |-> block, head |-> 0, len |-> Len(d)]]
    /\ want' = [want EXCEPT ![c] = @ \o n]

\* the first append takes a block
AppendFirst(c, d, stale) ==
    /\ Empty(c)
    /\ \E r \in {allocate(pool, Len(d), stale)} :
         /\ pool' = r.pool
         /\ IF r.block = NoBlock THEN UNCHANGED <<cache, mem, want>>
            ELSE Filled(c, r.block, mem, d, d)

\* there is room behind the data
AppendBehind(c, d) ==
    LET x == cache[c]
    IN  /\ ~Empty(c) /\ Len(d) + x.head + x.len <= x.block.size
        /\ mem' = [mem EXCEPT ![x.block] = Copied(@, x.head + x.len, d)]
        /\ cache' = [cache EXCEPT ![c].len = @ + Len(d)]
        /\ want' = [want EXCEPT ![c] = @ \o d]
        /\ UNCHANGED pool

\* the block is too small: a larger one, and the old one goes back
AppendLarger(c, d, stale) ==
    LET x == cache[c]
    IN  /\ ~Empty(c) /\ Len(d) + x.len > x.block.size
        /\ \E r \in {allocate(pool, Len(d) + x.len, stale)} :
             IF r.block = NoBlock
             THEN pool' = r.pool /\ UNCHANGED <<cache, mem, want>>
             ELSE /\ pool' = recycle(r.pool, x.block, stale)
                  /\ Filled(c, r.block, [mem EXCEPT ![x.block] = <<>>], data(x) \o d, d)

\* mutant of AppendMoved: the data is not moved
AppendMoved_InPlace(c, d) ==
    LET x == cache[c]
    IN  /\ ~Empty(c)
        /\ Len(d) + x.head + x.len > x.block.size /\ Len(d) + x.len <= x.block.size
        /\ mem' = [mem EXCEPT ![x.block] = Copied(@, x.len, d)]
        /\ cache' = [cache EXCEPT ![c].head = 0, ![c].len = @ + Len(d)]
        /\ want' = [want EXCEPT ![c] = @ \o d]
        /\ UNCHANGED pool

\* there is room when the data is moved to the head of the block
AppendMoved(c, d) ==
    LET x == cache[c]
    IN  /\ ~Empty(c)
        /\ Len(d) + x.head + x.len > x.block.size /\ Len(d) + x.len <= x.block.size
        /\ mem' = [mem EXCEPT ![x.block] = Copied(Copied(@, 0, data(x)), x.len, d)]
        /\ cache' = [cache EXCEPT ![c].head = 0, ![c].len = @ + Len(d)]
        /\ want' = [want EXCEPT ![c] = @ \o d]
        /\ UNCHANGED pool

append(c, d, stale) == AppendFirst(c, d, stale) \/ AppendBehind(c, d)
                         \/ AppendLarger(c, d, stale) \/ AppendMoved(c, d)

\* skipping all data, or more, gives the block back
SkipAll(c, n, stale) ==
    /\ ~Empty(c) /\ n >= cache[c].len
    /\ pool' = recycle(pool, cache[c].block, stale)
    /\ cache' = [cache EXCEPT ![c] = NoCache]
    /\ want' = [want EXCEPT ![c] = <<>>]
    /\ mem' = [mem EXCEPT ![cache[c].block] = <<>>]

\* a byte that was skipped counts as never written
SkipSome(c, n) ==
    /\ ~Empty(c) /\ n < cache[c].len
    /\ cache' = [cache EXCEPT ![c].head = @ + n, ![c].len = @ - n]
    /\ want' = [want EXCEPT ![c] = SubSeq(@, n + 1, Len(@))]
    /\ mem' = [mem EXCEPT ![cache[c].block] = Copied(@, cache[c].head, Unwritten(n))]
    /\ UNCHANGED pool

skip(c, n, stale) == SkipAll(c, n, stale) \/ SkipSome(c, n)

\* the sizes for which release_count asks whether half of the blocks are free
HalfSizes == {s \in BlockSize : s >= Slot1 \div 2 /\ s <= Slot2}

CacheNext ==
    \E c \in Cache, n \in Lengths, stale \in SUBSET HalfSizes :
      \/ Len(want[c]) + n <= MaxData /\ append(c, NextBytes(c, n), stale)
      \/ skip(c, n, stale)

-----------------------------------------------------------------------------
(* Properties                                                              *)

\* A cache holds the bytes appended to it and not skipped yet, in their order,
\* through moves, larger blocks, and blocks that go back to the pool, are
\* released and come again for other caches (CRawCache::append and skip,
\* CMemPool::allocate and recycle).
CacheKeepsData ==
    \A c \in Cache : IF Empty(c) THEN want[c] = <<>>
                     ELSE data(cache[c]) = want[c]

\* the bytes of the blocks f[s] of each size s
Bytes(f) == UNION {{s} \X (f[s] \X (1 .. s)) : s \in BlockSize}

\* The size the pool keeps account of is that of the blocks it has, and stays
\* within the maximum when blocks of one size are released to make room for
\* another (extend, release_size, release, and the assertion in release).
PoolBounded ==
    /\ pool.allocated = Cardinality(Bytes(pool.live))
    /\ pool.allocated <= PoolMax
=============================================================================
