----------------------------- MODULE BaseSocket -----------------------------
(***************************************************************************)
(* The blocking TCP connection of the tools (CTcpClient, base_socket.h and *)
(* base_socket.cpp) and the server at its other end.  A connection is      *)
(*   "up"      connected,                                                  *)
(*   "dead"    connected once; the peer has closed it,                     *)
(*   "closed"  without a descriptor,                                       *)
(*   "hollow"  a descriptor that was never connected: Reconnect connects   *)
(*             to the address SavePeerAddr saved, which is all zero when   *)
(*             the object never had a connection.  Its family is then      *)
(*             AF_UNSPEC, for which connect() returns 0 and does nothing.  *)
(* A message is received whole, or RecvPack gives up in the middle of one  *)
(* after its timeout; what it had read is lost, and the next call takes    *)
(* the rest of the message for a header.                                   *)
(***************************************************************************)
EXTENDS Integers, Sequences, FiniteSets, TLC

CONSTANT MaxFault      \* bound on the faults of the server and the network

VARIABLES
    sock,      \* the connection
    peer,      \* m_PeerAddr has been set
    torn,      \* the stream is read from the middle of a message
    c2s, s2c,  \* the messages under way on the connection
    serving,   \* the server accepts connections
    faults     \* how many faults there were

sockVars == <<sock, peer, torn, c2s, s2c, serving, faults>>

\* Close
NoConnection(p) == [ok |-> FALSE, sock |-> "closed", peer |-> p, c2s |-> <<>>, s2c |-> <<>>,
                    torn |-> FALSE]

\* Create: a descriptor
NewSocket(p) == [NoConnection(p) EXCEPT !.ok = TRUE, !.sock = "hollow"]

\* SaveAddr notes the address of the peer
SaveAddr(k) == [k EXCEPT !.peer = TRUE]

\* Connect to the server; a new connection is empty
Connected == SaveAddr([NewSocket(FALSE) EXCEPT !.sock = "up"])

\* the constructor CTcpClient(host, port, timeout)
NewClient == IF serving THEN Connected ELSE NoConnection(FALSE)

Reconnect == IF ~peer THEN NewSocket(FALSE)
             ELSE IF serving THEN Connected ELSE NoConnection(TRUE)

Same == [ok |-> TRUE, sock |-> sock, peer |-> peer, c2s |-> c2s, s2c |-> s2c, torn |-> torn]

\* SendN on the connection k: the outcomes.  What is written to a connection
\* the peer has closed may still be accepted.
SendN(k, m) ==
    CASE k.sock = "up"   -> {[k EXCEPT !.ok = TRUE, !.c2s = Append(@, m)]}
      [] k.sock = "dead" -> {[k EXCEPT !.ok = TRUE], [k EXCEPT !.ok = FALSE]}
      [] OTHER           -> {[k EXCEPT !.ok = FALSE]}

\* the outcomes of RecvPack: what it returns, the message, the connection
Got(m)  == [ret |-> "pack", msg |-> <<m>>, k |-> [Same EXCEPT !.s2c = Tail(@)]]
Ret(r)  == [ret |-> r, msg |-> <<>>, k |-> Same]
Swallowed(r) == [ret |-> r, msg |-> <<>>, k |-> [Same EXCEPT !.s2c = <<>>]]
Cut     == [ret |-> "timeout", msg |-> <<>>, k |-> [Same EXCEPT !.torn = TRUE]]

\* Off a torn stream comes a length that is refused, or a pack of any length,
\* which is no message.
RecvPack ==
    IF sock \in {"closed", "hollow"} THEN {Ret("error")}
    ELSE IF torn /\ s2c # <<>>
         THEN {Ret("invalid"), Swallowed("timeout"), Swallowed("pack")}
    ELSE IF s2c # <<>> THEN {Got(Head(s2c))} \cup (IF faults < MaxFault THEN {Cut} ELSE {})
    ELSE IF sock = "dead" THEN {Ret("closed")} ELSE {Ret("timeout")}

\* the first connection of a program
SocketInit == /\ serving \in BOOLEAN
              /\ sock = NewClient.sock /\ peer = NewClient.peer
              /\ torn = FALSE /\ c2s = <<>> /\ s2c = <<>> /\ faults = 0

\* no program has a connection
SocketUnused == /\ serving = TRUE /\ sock = "closed" /\ peer = TRUE
                /\ torn = FALSE /\ c2s = <<>> /\ s2c = <<>> /\ faults = 0

Becomes(k) == /\ sock' = k.sock /\ peer' = k.peer /\ torn' = k.torn
              /\ c2s' = k.c2s /\ s2c' = k.s2c

\* The connection breaks: what the server had sent may still be read.
Break == /\ sock = "up" /\ faults < MaxFault
         /\ sock' = "dead" /\ c2s' = <<>> /\ s2c' \in {s2c, <<>>}
         /\ faults' = faults + 1
         /\ UNCHANGED <<peer, torn, serving>>

ServerDown == /\ serving /\ faults < MaxFault
              /\ serving' = FALSE
              /\ sock' = IF sock = "up" THEN "dead" ELSE sock
              /\ c2s' = <<>> /\ s2c' \in {s2c, <<>>}
              /\ faults' = faults + 1
              /\ UNCHANGED <<peer, torn>>

ServerUp == /\ ~serving
            /\ serving' = TRUE
            /\ UNCHANGED <<sock, peer, torn, c2s, s2c, faults>>
=============================================================================
