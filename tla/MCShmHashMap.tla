---------------------------- MODULE MCShmHashMap ----------------------------
(* An instance of ShmHashMap for model checking.                           *)
EXTENDS ShmHashMap, TLC

CONSTANTS p1, p2

VARIABLE stack   \* the value of Stacks(map), so that TLC works it out once a step

MCInit == MapInit /\ stack = Stacks(map)
MCNext == MapNext /\ stack' = Stacks(map')
MCSpec == MCInit /\ [][MCNext]_<<mapVars, stack>>

Callers == INSTANCE KeyStacks

\* Whatever the order of calls, visits and restarts, the linked lists, counters
\* and chunks of the segment act as a stack of data under each key: a call
\* changes the data of its own key alone and as a whole, or changes nothing, and
\* nothing else disappears but by a process that opens the map (ShmHashMap.hpp
\* 142: init is not assigned when the segment is there).  That Insert pushes on
\* data the key has already is excepted: see OneDataPerKey.
ActsAsStacks == Callers!Spec

\* There is one data under a key at most: ShmHashMap.hpp 230 and HashMap.hpp 98
\* say that Insert fails when the key is there.  insert_node does not look.
OneDataPerKey == \A k \in Key : Len(stack[k]) <= 1

\* chunks of two bytes: a data of no chunk, of a part of one, of one and a half
Bytes == {<<>>, <<1>>, <<2, 3, 4>>}
Symmetry == Permutations(Proc)
=============================================================================
