----------------------------- MODULE MCSockCommu -----------------------------
(* Instances of SockCommu for model checking.                              *)
EXTENDS SockCommu, TLC

CONSTANTS c1, c2, c3, u1, b1

Symmetry == Permutations(Tcp)
=============================================================================
