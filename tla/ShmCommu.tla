------------------------------ MODULE ShmCommu ------------------------------
(***************************************************************************)
(* The pipes between the proxy and its worker groups (CTShmCommu,          *)
(* shmcommu.cpp): one ring of requests and one of responses for each       *)
(* group.  What a ring does to its bytes is the subject of ShmMQ; here it  *)
(* is the queue it implements, refusing a message when it is full and      *)
(* losing the oldest ones, on the worker's side, to the message timeout.   *)
(* The proxy and the worker both configure an expiretime_ of 0, so neither *)
(* CTShmCommu keeps an expiremap_.                                         *)
(***************************************************************************)
EXTENDS Naturals, Sequences, SequencesExt

CONSTANTS
    NGroup,       \* worker groups
    RingLen,      \* messages a ring holds
    MsgTimeout    \* does the worker's acceptor have a message timeout?

ASSUME PipeAssumption == /\ NGroup \in Nat \ {0}
                         /\ RingLen \in Nat \ {0}
                         /\ MsgTimeout \in BOOLEAN

VARIABLES
    req,     \* the ring of requests of each group
    rsp      \* the ring of responses of each group

Group == 1 .. NGroup

\* A message.  Its type is that of an event of the connection, "connected",
\* "overload", "timeout" or "disconnect", or "data" for every other.
\* `life' is the incarnation of the proxy that gave out the flow: the code does
\* not send it, the properties need it.
Msg(f, type, body, life) == [flow |-> f, type |-> type, body |-> body, life |-> life]

\* a response of length 0, which asks the proxy to close the connection
CloseRequest == [close |-> TRUE]

Full(q) == Len(q) >= RingLen

\* sendto, where the caller ignores the result of produce
Put(q, m) == IF Full(q) THEN q ELSE Append(q, m)

\* The numbers of messages comsume may skip because they are too old: they
\* were queued in the order of their timestamps.
Skipped(q) == IF MsgTimeout THEN 0 .. Len(q) ELSE {0}

PipeInit == req = [g \in Group |-> <<>>] /\ rsp = [g \in Group |-> <<>>]
=============================================================================
