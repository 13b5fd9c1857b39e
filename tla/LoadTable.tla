------------------------------ MODULE LoadTable ------------------------------
(***************************************************************************)
(* The table in shared memory (CLoadTable, loadtable.cpp, of which the     *)
(* controller and the report program have a copy each) in which the        *)
(* controller writes the number of connections and the report program      *)
(* reads it.  Its lock is a CNullLock, so each access is a step.  There is *)
(* one key, and blocks are numbered; the table has room for what the two   *)
(* programs can allocate.  What is written is a word and stays whole; it   *)
(* is modelled by its age.                                                 *)
(***************************************************************************)
EXTENDS Integers

VARIABLES
    seg,     \* the segment exists
    tail,    \* *tail_: how many blocks there are
    stamp,   \* timestamp_ of each block: "never", "fresh", or "old" (it has expired)
    at,      \* where each program is in init and Init_LoadItem
    seen,    \* the tail it has read
    pos      \* its item: the block, 0 if there is none

loadVars == <<seg, tail, stamp, at, seen, pos>>

User == {"ctrl", "report"}

LoadInit == /\ seg = FALSE /\ tail = 0
            /\ stamp = [b \in 1 .. 2 |-> "never"]
            /\ at = [u \in User |-> "attach"]
            /\ seen = [u \in User |-> 0]
            /\ pos = [u \in User |-> 0]

Goto(u, place) == at' = [at EXCEPT ![u] = place]

-----------------------------------------------------------------------------
\* getmemory: a second shmget creates what the first did not find, and
\* whoever gets there takes it for new
GetMemory(u) == /\ at[u] = "attach"
                /\ Goto(u, IF seg THEN "find" ELSE "create")
                /\ UNCHANGED <<seg, tail, stamp, seen, pos>>

CreateMemory(u) == /\ at[u] = "create"
                   /\ seg' = TRUE
                   /\ Goto(u, "reset")
                   /\ UNCHANGED <<tail, stamp, seen, pos>>

\* init clears the tail of a new segment
ResetTail(u) == /\ at[u] = "reset"
                /\ tail' = 0
                /\ Goto(u, "find")
                /\ UNCHANGED <<seg, stamp, seen, pos>>

\* the first block with the key; 0 if there is none
findblock == IF tail > 0 THEN 1 ELSE 0

\* Init_LoadItem looks for the key
FindItem(u) ==
    /\ at[u] = "find"
    /\ IF findblock # 0
       THEN pos' = [pos EXCEPT ![u] = findblock] /\ Goto(u, "ready")
       ELSE Goto(u, "tail") /\ UNCHANGED pos
    /\ UNCHANGED <<seg, tail, stamp, seen>>

\* Init_LoadItem reads the tail again ...
ReadTail(u) == /\ at[u] = "tail"
               /\ seen' = [seen EXCEPT ![u] = tail]
               /\ Goto(u, "fill")
               /\ UNCHANGED <<seg, tail, stamp, pos>>

\* ... and adds an empty block there
AddItem(u) == /\ at[u] = "fill"
              /\ stamp' = [stamp EXCEPT ![seen[u] + 1] = "never"]
              /\ tail' = seen[u] + 1
              /\ pos' = [pos EXCEPT ![u] = seen[u] + 1]
              /\ Goto(u, "ready")
              /\ UNCHANGED <<seg, seen>>

InitItem(u) == \/ GetMemory(u) \/ CreateMemory(u) \/ ResetTail(u)
               \/ FindItem(u) \/ ReadTail(u) \/ AddItem(u)

-----------------------------------------------------------------------------
\* write: nothing before Init_LoadItem, and nothing behind the tail
write(u) == /\ at[u] = "ready" /\ pos[u] <= tail
            /\ stamp' = [stamp EXCEPT ![pos[u]] = "fresh"]
            /\ UNCHANGED <<seg, tail, at, seen, pos>>

\* read gives something
read(u) == at[u] = "ready" /\ pos[u] <= tail /\ stamp[pos[u]] = "fresh"

\* nothing was written for longer than the timeout of read
GrowOld == /\ \E b \in 1 .. 2 : stamp[b] = "fresh"
           /\ stamp' = [b \in 1 .. 2 |-> IF stamp[b] = "fresh" THEN "old" ELSE stamp[b]]
           /\ UNCHANGED <<seg, tail, at, seen, pos>>

\* a new process attaches again
Attach(u) == /\ Goto(u, "attach")
             /\ pos' = [pos EXCEPT ![u] = 0]
             /\ UNCHANGED <<seg, tail, stamp, seen>>
=============================================================================
