------------------------------ MODULE MCServer ------------------------------
(* Instances of Server for model checking.                                 *)
EXTENDS Server

CONSTANTS c1, c2, c3

\* two processes in every group
Procs  == [group : Group, no : 1 .. 2]
Routes == -1 .. NGroup

Symmetry == Permutations(Client)
=============================================================================
