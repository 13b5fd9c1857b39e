----------------------------- MODULE ChunkAlloc -----------------------------
(***************************************************************************)
(* CChunkAllocator (ChunkAlloc.hpp, ChunkAlloc.cpp): the data of a hash    *)
(* node lies in a chain of chunks of one size, taken from a free list.     *)
(* A handler is the number of a chunk, INVALID the handler of none.  The   *)
(* pool is a record, and an operation the pool (and result) it leaves.     *)
(***************************************************************************)
EXTENDS Integers, Sequences, FiniteSets, SequencesExt

CONSTANTS ChunkTotal,   \* n_chunks
          ChunkSize     \* chunk_size, in bytes

ASSUME ChunkAssumption == ChunkTotal \in Nat \ {0} /\ ChunkSize \in Nat \ {0}

INVALID == 0

Chunk == 1 .. ChunkTotal

Least(a, b) == IF a < b THEN a ELSE b

\* the handlers from h on, at most n of them, next_ giving the one after another
Follow(next, h, n) ==
    LET at[i \in 1 .. n] ==
          IF i = 1 THEN h
          ELSE LET last == at[i - 1]
               IN  IF last = INVALID THEN INVALID ELSE next[last]
    IN  SubSeq(at, 1, Cardinality({i \in 1 .. n : at[i] # INVALID}))

Chain(pool, h) == Follow(pool.next, h, ChunkTotal + 1)

\* init_pool_data: the chunks enter the free list one by one, at its head
FreshPool == [next       |-> [c \in Chunk |-> c - 1],
              data       |-> [c \in Chunk |-> <<>>],
              free_list  |-> ChunkTotal,
              free_total |-> ChunkTotal]

\* verify_pool_data
PoolVerified(pool) == Len(Chain(pool, pool.free_list)) = pool.free_total

\* mutant of get_chunk_num: a last chunk that is not full is not counted
get_chunk_num_Floor(len) == len \div ChunkSize

get_chunk_num(len) == (len + ChunkSize - 1) \div ChunkSize

\* each chunk of the list linked to the one before it, and the first one to h
Backwards(next, list, h) ==
    [c \in Chunk |-> IF Contains(list, c)
                     THEN LET i == CHOOSE j \in 1 .. Len(list) : list[j] = c
                          IN  IF i = 1 THEN h ELSE list[i - 1]
                     ELSE next[c]]

\* malloc gives up, or there is nothing to allocate
Refused(pool, n) == n = 0 \/ pool.free_total < n

\* the first n chunks of the free list, the last one taken becoming the head
malloc(pool, n) ==
    LET got == Follow(pool.next, pool.free_list, n)
    IN  IF Refused(pool, n)
        THEN [pool |-> pool, head |-> INVALID]
        ELSE [pool |-> [pool EXCEPT
                 !.next = Backwards(@, got, INVALID),
                 !.free_list = pool.next[got[n]],
                 !.free_total = @ - n],
              head |-> got[n]]

\* each chunk of the chain, from its head on, goes to the head of the free list;
\* what it held is forgotten here, as it is written before it is read again
free(pool, h) ==
    LET chain == Chain(pool, h)
    IN  IF h = INVALID THEN pool
        ELSE [pool EXCEPT
                 !.next = Backwards(@, chain, pool.free_list),
                 !.data = [c \in Chunk |-> IF Contains(chain, c) THEN <<>> ELSE @[c]],
                 !.free_list = Last(chain),
                 !.free_total = @ + Len(chain)]

\* what a data of this length has in the i-th chunk of its chain
Extent(len, i) == <<(i - 1) * ChunkSize + 1, Least(i * ChunkSize, len)>>

\* what the chunks hold when those of the list hold the data, a part of it each
Pieces(old, list, data) ==
    [c \in Chunk |-> IF Contains(list, c)
                     THEN LET e == Extent(Len(data), CHOOSE j \in 1 .. Len(list) : list[j] = c)
                          IN  SubSeq(data, e[1], e[2])
                     ELSE old[c]]

\* the data is cut into the chunks of the chain at h; what an earlier data left
\* behind it in a chunk is never part of a data again and is left out
split(pool, h, data) == [pool EXCEPT !.data = Pieces(@, Chain(pool, h), data)]

\* the bytes of a data of this length, read chunk by chunk along the chain at h
merge(pool, h, len) ==
    LET chain == Chain(pool, h)
    IN  [i \in 1 .. Least(len, Len(chain) * ChunkSize) |->
            pool.data[chain[((i - 1) \div ChunkSize) + 1]][((i - 1) % ChunkSize) + 1]]
=============================================================================
