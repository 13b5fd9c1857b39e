----------------------------- MODULE MCPeriphery -----------------------------
(* An instance of Periphery for model checking.                            *)
EXTENDS Periphery

\* Type 1 has two nodes, one of them given twice; the second of them cannot be
\* reached.  Type 2 has one node.
MCRouteConf ==
    <<[route |-> "%", route_val |-> 2,
       nodes |-> <<[id |-> 2, type |-> "tcp", begin |-> 5, end |-> 5],
                   [id |-> 1, type |-> "tcp", begin |-> 0, end |-> 0],
                   [id |-> 2, type |-> "udp", begin |-> 1, end |-> 1]>>],
      [route |-> "/", route_val |-> 2,
       nodes |-> <<[id |-> 1, type |-> "tcp", begin |-> 1, end |-> 2]>>]>>

\* two bodies for the same node, and one for each of the others
MCBody == 1 .. 4
MCDest == <<[serv_type |-> 1, key |-> 2], [serv_type |-> 1, key |-> 4],
            [serv_type |-> 1, key |-> 3], [serv_type |-> 2, key |-> 3]>>
=============================================================================
