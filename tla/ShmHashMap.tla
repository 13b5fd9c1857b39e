----------------------------- MODULE ShmHashMap -----------------------------
(***************************************************************************)
(* CShmHashMap (ShmHashMap.hpp): a hash map in a shared memory segment     *)
(* (CSVShm) that several processes use under a semaphore (CAutoLock,       *)
(* CSemLock).  Every call holds the semaphore from beginning to end and is *)
(* one action; a visitor holds it while it walks.  The processes are given *)
(* the same THashInfo; a segment and a semaphore may be left from before.  *)
(***************************************************************************)
EXTENDS HashMap

CONSTANTS Proc,    \* the processes
          Data     \* the data stored

Octet == 0 .. 255

ASSUME DataAssumption == Data \subseteq Seq(Octet)

VARIABLES
    sem,    \* the semaphore: none, with the value 0 ("taken") or with 1 ("free")
    seg,    \* the segment under the key: none, of another size, or the map's
    map,    \* the map in the segment
    pc,     \* what each process does with the map
    node    \* the node a visitor has come to

mapVars == <<sem, seg, map, pc, node>>

\* a semaphore that is there has its value, unless its creator died too early
MapInit ==
    /\ sem \in {"none", "free"}
    /\ seg \in {"none", "smaller", "larger"}
    /\ map = FreshMap
    /\ pc = [p \in Proc |-> "closed"]
    /\ node = INVALID

-----------------------------------------------------------------------------
(* Init                                                                    *)

\* semget, with IPC_EXCL first; a new semaphore has the value 0
OpenSem(p) ==
    /\ pc[p] = "closed"
    /\ pc' = [pc EXCEPT ![p] = IF sem = "none" THEN "setall" ELSE "opening"]
    /\ sem' = IF sem = "none" THEN "taken" ELSE sem
    /\ UNCHANGED <<seg, map, node>>

\* semctl(SETALL)
SetAll(p) ==
    /\ pc[p] = "setall"
    /\ pc' = [pc EXCEPT ![p] = "opening"]
    /\ sem' = "free"
    /\ UNCHANGED <<seg, map, node>>

\* CAutoLock and force_open_and_attach: the init that Init passes on.  A segment
\* too small is removed and made anew; otherwise init was never assigned.
InitFlag == IF seg \in {"none", "smaller"} THEN {TRUE} ELSE BOOLEAN

\* the rest of Init, which fails when the segment does not verify
Attach(p) ==
    /\ pc[p] = "opening" /\ sem = "free"
    /\ \E init \in InitFlag :
         /\ map' = open(map, init)
         /\ seg' = IF init THEN "ours" ELSE seg
         /\ \/ /\ init \/ (seg = "ours" /\ Verified(map))
               /\ pc' = [pc EXCEPT ![p] = "open"]
            \/ /\ ~init /\ (seg = "larger" \/ ~Verified(map))
               /\ pc' = [pc EXCEPT ![p] = "closed"]
    /\ UNCHANGED <<sem, node>>

-----------------------------------------------------------------------------
(* the calls                                                               *)

\* CAutoLock: the call is made with the semaphore
Call(p) == pc[p] = "open" /\ sem = "free" /\ UNCHANGED <<sem, seg, pc, node>>

\* what is read is merge_node_data of the node, if the buffer can hold it
Find(p, key) == Call(p) /\ map' = find_node(map, key)

Insert(p, key, data) == Call(p) /\ map' = insert_node(map, key, data)

SetValue(p, key, data) == Call(p) /\ map' = replace_node(map, key, data)

Delete(p, key) ==
    LET n == Sought(map, key)
    IN  /\ Call(p)
        /\ n # INVALID
        /\ map' = delete_node(find_node(map, key), n)

-----------------------------------------------------------------------------
(* vistor                                                                  *)

\* the constructor takes the semaphore; begin or end gives the first node
Visit(p) ==
    /\ pc[p] = "open" /\ sem = "free"
    /\ sem' = "taken"
    /\ pc' = [pc EXCEPT ![p] = "visiting"]
    /\ node' \in {map.add_head, map.add_tail}
    /\ UNCHANGED <<seg, map>>

AtNode(p) == pc[p] = "visiting" /\ node # INVALID /\ UNCHANGED <<sem, seg, pc>>

\* next or prev
Move(p) ==
    /\ AtNode(p)
    /\ node' \in {map.node[node].add_next, map.node[node].add_prev}
    /\ UNCHANGED map

UpdateData(p, data) ==
    /\ AtNode(p)
    /\ map' = update_node(map, node, data)
    /\ UNCHANGED node

\* the caller takes the next node before it erases this one
Erase(p) ==
    /\ AtNode(p)
    /\ map' = delete_node(map, node)
    /\ node' = map.node[node].add_next

\* the destructor gives the semaphore back
Leave(p) ==
    /\ pc[p] = "visiting"
    /\ sem' = "free"
    /\ pc' = [pc EXCEPT ![p] = "open"]
    /\ node' = INVALID
    /\ UNCHANGED <<seg, map>>

\* the process ends, between two operations: SEM_UNDO gives the semaphore back
Die(p) ==
    /\ pc[p] # "closed"
    /\ pc' = [pc EXCEPT ![p] = "closed"]
    /\ sem' = IF pc[p] = "visiting" THEN "free" ELSE sem
    /\ node' = IF pc[p] = "visiting" THEN INVALID ELSE node
    /\ UNCHANGED <<seg, map>>

-----------------------------------------------------------------------------
MapNext ==
    \E p \in Proc :
        \/ OpenSem(p) \/ SetAll(p) \/ Attach(p)
        \/ Visit(p) \/ Move(p) \/ Erase(p) \/ Leave(p) \/ Die(p)
        \/ \E data \in Data : UpdateData(p, data)
        \/ \E key \in Key :
             \/ Find(p, key) \/ Delete(p, key)
             \/ \E data \in Data : Insert(p, key, data) \/ SetValue(p, key, data)

MapSpec == MapInit /\ [][MapNext]_mapVars

-----------------------------------------------------------------------------
(* What is stored: the data of the nodes with each key                     *)
Stacks(m) == [key \in Key |-> LET list == Nodes(m, key)
                              IN  [i \in 1 .. Len(list) |-> merge_node_data(m, list[i])]]

\* A walk of a visitor over the add list, which every call relinks, passes each
\* node of the buckets once, forwards from begin and backwards from end.
VisitsAll ==
    LET forth == AddList(map)
        back  == Along(map, "add_prev", map.add_tail)
        nodes == UNION {Range(Nodes(map, key)) : key \in Key}
    IN  /\ Reverse(back) = forth
        /\ Range(forth) = nodes
        /\ Len(forth) = Cardinality(nodes)

\* Whatever the calls that succeeded or failed before, each node and each chunk
\* is free or holds data that can be found: the map is full only when it is,
\* and no process that opens it is refused by verify_pool_data.
NothingLost ==
    LET used == UNION {Range(Nodes(map, key)) : key \in Key}
        chunks(n) == Range(Chain(map.pool, map.node[n].chunk))
    IN  /\ Verified(map)
        /\ Range(FreeList(map)) = Node \ used
        /\ Range(Chain(map.pool, map.pool.free_list)) = Chunk \ UNION {chunks(n) : n \in used}
        /\ \A n1, n2 \in used : n1 # n2 => chunks(n1) \cap chunks(n2) = {}
=============================================================================
