--------------------------- MODULE MCShmMQRestart ----------------------------
(***************************************************************************)
(* Instances of ShmMQRestart for TLC.                                      *)
(***************************************************************************)
EXTENDS ShmMQRestart

CONSTANTS proxy, w1, w2

\* Two messages whose sizes, 3 and 4, reach every position of a ring of 7.
Requests == {[len |-> 1, ext |-> 0, id |-> "a"], [len |-> 1, ext |-> 1, id |-> "b"]}
==============================================================================
