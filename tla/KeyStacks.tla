----------------------------- MODULE KeyStacks ------------------------------
(***************************************************************************)
(* What CShmHashMap gives its callers.  Under each key lies a stack of     *)
(* data: Insert puts data under a key that has none, SetValue replaces the *)
(* top, Delete takes it off.  There is room for NodeTotal data and         *)
(* ChunkTotal chunks, and a call that fails leaves the stacks alone.       *)
(*                                                                         *)
(* As it is documented, no stack is higher than one: Insert fails when the *)
(* key is there (ShmHashMap.hpp 230, HashMap.hpp 98).  InsertAgain is the  *)
(* exception to that: the code does not look, and pushes.                  *)
(***************************************************************************)
EXTENDS Integers, FiniteSets, SequencesExt

CONSTANTS Key, Data, NodeTotal, ChunkTotal, ChunkSize

VARIABLE stack   \* the data under each key, the last one first

Chunks(data) == (Len(data) + ChunkSize - 1) \div ChunkSize

\* the places of the data in the stacks, and the chunks of each of them
Stored(s) == UNION {{k} \X (1 .. Len(s[k])) : k \in Key}

InUse(s) == UNION {{x} \X (1 .. Chunks(s[x[1]][x[2]])) : x \in Stored(s)}

Fits(s) == /\ IsFiniteSet(Stored(s)) /\ Cardinality(Stored(s)) <= NodeTotal
           /\ IsFiniteSet(InUse(s)) /\ Cardinality(InUse(s)) <= ChunkTotal

Empty == [k \in Key |-> <<>>]

\* the call puts s in place of the stacks, or fails as there is no room for it
Try(s) == Fits(s) /\ stack' = s

Init == stack = Empty

\* a data of no length is refused: it has no chunk
Push(k, data) == data # <<>> /\ Try([stack EXCEPT ![k] = <<data>> \o @])

Insert(k, data) == stack[k] = <<>> /\ Push(k, data)

\* the key is there: the call may fail, as documented, or push
InsertAgain(k, data) == stack[k] # <<>> /\ Push(k, data)

\* SetValue changes the first data of the stack, a visitor any of them
Change(k, i, data) == Try([stack EXCEPT ![k][i] = data])

\* Delete removes the first data of the stack, a visitor any of them
TakeOut(k, i) == stack' = [stack EXCEPT ![k] = RemoveAt(@, i)]

\* a process that opens the map may empty it
Clear == stack' = Empty

Next ==
    \/ Clear
    \/ \E k \in Key :
         \/ \E data \in Data : Insert(k, data) \/ InsertAgain(k, data)
         \/ \E i \in 1 .. Len(stack[k]) :
              TakeOut(k, i) \/ \E data \in Data : Change(k, i, data)

Spec == Init /\ [][Next]_stack
=============================================================================
