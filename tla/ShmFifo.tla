------------------------------- MODULE ShmFifo -------------------------------
(***************************************************************************)
(* What a shared-memory message queue (CShmMQ) promises its users: a FIFO  *)
(* of whole messages. A message is sent once, is handed to at most one     *)
(* consumer, unchanged and in order, or is dropped from the front because  *)
(* it has waited for longer than msg_timeout_. ShmMQ implements it.        *)
(***************************************************************************)
EXTENDS Sequences

CONSTANTS
    Msg,        \* the messages
    Consumers,  \* the processes that dequeue
    Expiry,     \* TRUE when msg_timeout_ is configured
    Nil         \* "nothing received yet"

VARIABLES
    fifo,       \* the messages sent and not yet taken, oldest first
    got         \* got[c]: the message consumer c received last

vars == <<fifo, got>>

Init ==
    /\ fifo = << >>
    /\ got = [c \in Consumers |-> Nil]

Send == 
    \E m \in Msg :
        /\ fifo' = Append(fifo, m)
        /\ UNCHANGED got

Receive ==
    \E c \in Consumers :
        /\ fifo # << >>
        /\ got' = [got EXCEPT ![c] = Head(fifo)]
        /\ fifo' = Tail(fifo)

Expire ==
    /\ Expiry
    /\ fifo # << >>
    /\ fifo' = Tail(fifo)
    /\ UNCHANGED got

Next == Send \/ Receive \/ Expire

Spec == Init /\ [][Next]_vars
==============================================================================
