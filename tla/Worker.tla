------------------------------- MODULE Worker -------------------------------
(***************************************************************************)
(* The worker processes (CDefaultWorker, defaultworker.cpp) as the proxy   *)
(* sees them.  A poll of the acceptor takes one message from the ring of   *)
(* the group (under its lock when the group has several processes) and     *)
(* hands it to the service module, which answers at once, or when a        *)
(* back-end has answered (Backend models that side), or not at all.        *)
(***************************************************************************)
EXTENDS Proxy

CONSTANT Proc     \* the worker processes: records of a group and a number

ASSUME WorkerAssumption == \A w \in Proc : w.group \in Group

VARIABLES
    pending,  \* messages each worker process will answer later
    gone      \* connections (life, flow) each group was told have gone

workerVars == <<pending, gone>>

WorkerInit == /\ pending = [w \in Proc |-> {}]
              /\ gone = [g \in Group |-> {}]

Answer(m) == Msg(m.flow, "data", m.body, m.life)

\* a response of no length
Closing(m) == Msg(m.flow, "data", CloseRequest, m.life)

\* ator_recvdata: spp_handle_process answers or not; when it returns other than
\* 0 the worker asks the proxy to close the connection.  sendto may meet a full
\* ring, and nothing is made of it.
Process(w, m) ==
    LET answered == Put(rsp[w.group], Answer(m))
    IN  /\ handled' = [handled EXCEPT ![m.body] = @ + 1]
        /\ \/ /\ rsp' = [rsp EXCEPT ![w.group] = answered]
              /\ UNCHANGED pending
           \/ /\ rsp' = [rsp EXCEPT ![w.group] = Put(answered, Closing(m))]
              /\ UNCHANGED pending
           \/ /\ rsp' = [rsp EXCEPT ![w.group] = Put(@, Closing(m))]
              /\ UNCHANGED pending
           \/ /\ pending' = [pending EXCEPT ![w] = @ \cup {m}]
              /\ UNCHANGED rsp

\* ator_connected, ator_overload, ator_timeout, ator_disconn: the registered
\* event functions are told
Tell(w, m) ==
    /\ gone' = IF m.type \in {"timeout", "disconnect"}
               THEN [gone EXCEPT ![w.group] = @ \cup {<<m.life, m.flow>>}]
               ELSE gone

\* the messages among the first n of a ring that are requests
DataIn(q, n) == {q[i].body : i \in {j \in 1 .. n : q[j].type = "data"}}

\* CTShmCommu::poll, for one message
Poll(w) ==
    \E n \in Skipped(req[w.group]) :
      LET q == req[w.group]
      IN  /\ q # <<>>
          /\ lost' = lost \cup DataIn(q, n)
          /\ req' = [req EXCEPT ![w.group] = SubSeq(q, n + 2, Len(q))]
          /\ \/ /\ n = Len(q)
                /\ UNCHANGED <<rsp, handled, workerVars>>
             \/ /\ n < Len(q) /\ q[n + 1].type = "data"
                /\ Process(w, q[n + 1])
                /\ UNCHANGED gone
             \/ /\ n < Len(q) /\ q[n + 1].type # "data"
                /\ Tell(w, q[n + 1])
                /\ UNCHANGED <<rsp, handled, pending>>
          /\ UNCHANGED <<local, life, flow, conn, cur, sent, outbox, there, unkept, got>>

\* ctor_recvdata: the back-end has answered, so the module answers the client
BackAnswer(w) ==
    \E m \in pending[w] :
      /\ pending' = [pending EXCEPT ![w] = @ \ {m}]
      /\ rsp' = [rsp EXCEPT ![w.group] = Put(@, Answer(m))]
      /\ UNCHANGED <<req, proxyVars, gone>>

\* a worker process dies and is started again
WorkerRestart(w) ==
    /\ pending[w] # {}
    /\ pending' = [pending EXCEPT ![w] = {}]
    /\ UNCHANGED <<req, rsp, proxyVars, gone>>

WorkerNext == \E w \in Proc : Poll(w) \/ BackAnswer(w) \/ WorkerRestart(w)
=============================================================================
