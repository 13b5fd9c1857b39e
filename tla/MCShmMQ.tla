------------------------------- MODULE MCShmMQ -------------------------------
(***************************************************************************)
(* Instances of ShmMQ for TLC.                                             *)
(***************************************************************************)
EXTENDS ShmMQ, TLC

CONSTANTS p1, p2, c1, c2

\* Messages of one byte, of data and extension data, of extension data alone,
\* and one that is longer than MaxBlob = 2.
Blobs == {[len |-> 1, ext |-> 0, id |-> "a"], [len |-> 1, ext |-> 1, id |-> "b"],
          [len |-> 0, ext |-> 2, id |-> "c"], [len |-> 3, ext |-> 0, id |-> "d"]}

\* Responses, and the message without data by which a worker asks the proxy to
\* close the connection (ator_recvdata: rspblob.len = 0).
CloseBlobs == {[len |-> 1, ext |-> 0, id |-> "rsp"], [len |-> 0, ext |-> 0, id |-> "close"]}

\* Processes of one role are interchangeable.
Symmetry == Permutations(Producers) \cup Permutations(Consumers)
==============================================================================
