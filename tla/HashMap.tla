------------------------------ MODULE HashMap -------------------------------
(***************************************************************************)
(* CHashMap (HashMap.hpp, HashMapImp.hpp): a fixed number of nodes, each   *)
(* in the free list or in the doubly linked list of its key's bucket and   *)
(* in the "add list", which holds the nodes in the order of their last     *)
(* use.  The map is a record, and an operation the map (and result) it     *)
(* leaves.  Left out: flag_, add_info_1_ and add_info_2_ (the time and the *)
(* number of uses), which nothing here reads.                              *)
(***************************************************************************)
EXTENDS ChunkAlloc

CONSTANTS NodeTotal,    \* node_total
          BucketSize,   \* bucket_size
          Key           \* the keys in use; HashFunc is the identity on them

ASSUME HashAssumption == /\ NodeTotal \in Nat \ {0} /\ BucketSize \in Nat \ {0}
                         /\ Key \subseteq Nat /\ Key # {}

Node == 1 .. NodeTotal

Bucket == 0 .. BucketSize - 1

get_bucket_id(key) == key % BucketSize

NoKey == -1

\* node->field = value, unless node is NULL
Set(m, node, field, value) ==
    IF node = INVALID THEN m ELSE [m EXCEPT !.node[node][field] = value]

\* init_node; the key of a free node, which stays in it unread, is left out
init_node == [key |-> NoKey, len |-> 0, chunk |-> INVALID,
                   next |-> INVALID, prev |-> INVALID,
                   add_next |-> INVALID, add_prev |-> INVALID]

\* init_pool_data, and that of the chunks
FreshMap ==
    [node      |-> [n \in Node |-> [init_node EXCEPT !.next = n - 1]],
     bucket    |-> [b \in Bucket |-> INVALID],
     free_list |-> NodeTotal,
     add_head  |-> INVALID,
     add_tail  |-> INVALID,
     used_node_num   |-> 0,
     used_bucket_num |-> 0,
     pool      |-> FreshPool]

Along(m, field, h) == Follow([n \in Node |-> m.node[n][field]], h, NodeTotal + 1)

FreeList(m)      == Along(m, "next", m.free_list)
BucketList(m, b) == Along(m, "next", m.bucket[b])
AddList(m)       == Along(m, "add_next", m.add_head)

\* the elements of a list that are in S, in their order
Select(list, S) ==
    LET some[i \in 0 .. Len(list)] ==
          IF i = 0 THEN <<>>
          ELSE IF list[i] \in S THEN Append(some[i - 1], list[i]) ELSE some[i - 1]
    IN  some[Len(list)]

\* the nodes with a key, as they lie in the list of its bucket
Nodes(m, key) == Select(BucketList(m, get_bucket_id(key)), {n \in Node : m.node[n].key = key})

\* verify_pool_data, then that of the chunks
Verified(m) ==
    /\ Cardinality({b \in Bucket : m.bucket[b] # INVALID}) = m.used_bucket_num
    /\ m.used_node_num + Len(FreeList(m)) = NodeTotal
    /\ PoolVerified(m.pool)

\* open: what it leaves of the map; without init it fails unless Verified
open(m, init) == IF init THEN FreshMap ELSE m

free_list_insert(m, n) == [Set(m, n, "next", m.free_list) EXCEPT !.free_list = n]

\* of the node at the head, when there is one
free_list_remove(m) ==
    LET n == m.free_list
    IN  Set([m EXCEPT !.free_list = m.node[n].next], n, "next", INVALID)

\* mutant of delete_from_add_list: the tail is not moved
delete_from_add_list_Tail(m, n) ==
    LET next == m.node[n].add_next
        prev == m.node[n].add_prev
        out  == Set(Set(m, prev, "add_next", next), next, "add_prev", prev)
    IN  [Set(Set(out, n, "add_next", INVALID), n, "add_prev", INVALID)
         EXCEPT !.add_head = IF @ = n THEN next ELSE @]

\* nothing happens to a node that is not in the list
delete_from_add_list(m, n) ==
    LET next == m.node[n].add_next
        prev == m.node[n].add_prev
        out  == Set(Set(m, prev, "add_next", next), next, "add_prev", prev)
    IN  [Set(Set(out, n, "add_next", INVALID), n, "add_prev", INVALID)
         EXCEPT !.add_head = IF @ = n THEN next ELSE @,
                !.add_tail = IF @ = n THEN prev ELSE @]

insert_add_list_head(m, n) ==
    LET out  == delete_from_add_list(m, n)
        next == out.add_head
        in   == Set(Set(out, n, "add_next", next), n, "add_prev", INVALID)
    IN  [Set(in, next, "add_prev", n)
         EXCEPT !.add_head = n, !.add_tail = IF @ = INVALID THEN n ELSE @]

insert_node_list(m, n) ==
    LET b    == get_bucket_id(m.node[n].key)
        next == m.bucket[b]
        in   == Set(Set(m, n, "next", next), n, "prev", INVALID)
    IN  [Set(in, next, "prev", n) EXCEPT !.bucket[b] = n, !.used_node_num = @ + 1]

delete_from_node_list(m, n) ==
    LET b    == get_bucket_id(m.node[n].key)
        next == m.node[n].next
        prev == m.node[n].prev
        out  == Set(Set(m, prev, "next", next), next, "prev", prev)
    IN  [Set(Set(out, n, "next", INVALID), n, "prev", INVALID)
         EXCEPT !.bucket[b] = IF @ = n THEN next ELSE @, !.used_node_num = @ - 1]

\* used_bucket_num_ counts the bucket before its first node enters it
use_node(m, n, key, len, head) ==
    LET b    == get_bucket_id(key)
        used == [m EXCEPT !.node[n] = [@ EXCEPT !.key = key, !.len = len, !.chunk = head],
                          !.used_bucket_num = IF BucketList(m, b) = <<>> THEN @ + 1 ELSE @]
    IN  insert_node_list(used, n)

\* mutant of free_node: the bucket is tested before the node has left it
free_node_Early(m, n) ==
    LET out == delete_from_node_list(m, n)
        b   == get_bucket_id(m.node[n].key)
    IN  [out EXCEPT !.pool = free(@, m.node[n].chunk),
                    !.used_bucket_num = IF BucketList(m, b) = <<>> THEN @ - 1 ELSE @,
                    !.node[n] = init_node]

free_node(m, n) ==
    LET out == delete_from_node_list(m, n)
        b   == get_bucket_id(m.node[n].key)
    IN  [out EXCEPT !.pool = free(@, m.node[n].chunk),
                    !.used_bucket_num = IF BucketList(out, b) = <<>> THEN @ - 1 ELSE @,
                    !.node[n] = init_node]

\* the node find_node comes to: the first with the key in the bucket's list
Sought(m, key) == IF Nodes(m, key) = <<>> THEN INVALID ELSE Head(Nodes(m, key))

\* a node that is found is the most recently used one
find_node(m, key) ==
    LET n == Sought(m, key)
    IN  IF n = INVALID THEN m ELSE insert_add_list_head(m, n)

\* no node with the key is looked for; without chunks the node goes back
insert_node(m, key, data) ==
    LET n   == m.free_list
        out == free_list_remove(m)
        got == malloc(m.pool, get_chunk_num(Len(data)))
        put == [out EXCEPT !.pool = split(got.pool, got.head, data)]
    IN  CASE n = INVALID -> m
          [] n # INVALID /\ got.head = INVALID -> free_list_insert(out, n)
          [] OTHER -> insert_add_list_head(use_node(put, n, key, Len(data), got.head), n)

\* the chunks are exchanged when their number changes
update_node(m, n, data) ==
    LET old   == get_chunk_num(m.node[n].len)
        num   == get_chunk_num(Len(data))
        freed == free(m.pool, m.node[n].chunk)
        got   == IF num = old THEN [pool |-> m.pool, head |-> m.node[n].chunk]
                              ELSE malloc(freed, num)
    IN  IF num > old /\ m.pool.free_total < num - old
        THEN m
        ELSE [m EXCEPT !.pool = split(got.pool, got.head, data),
                       !.node[n] = [@ EXCEPT !.len = Len(data), !.chunk = got.head]]

replace_node(m, key, data) ==
    LET n == Sought(m, key)
    IN  IF n # INVALID THEN update_node(find_node(m, key), n, data)
                       ELSE insert_node(m, key, data)

delete_node(m, n) == free_list_insert(free_node(delete_from_add_list(m, n), n), n)

\* the data of a node, for a buffer that can hold it
merge_node_data(m, n) == merge(m.pool, m.node[n].chunk, m.node[n].len)
=============================================================================
