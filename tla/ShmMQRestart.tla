----------------------------- MODULE ShmMQRestart ----------------------------
(***************************************************************************)
(* The ring of ShmMQ when its processes die and are started again, which   *)
(* the controller does for workers (procmon.cpp, do_event: PROCDEAD and    *)
(* PROCDOWN) and the operator for the proxy. A process may be killed       *)
(* between any two of its accesses to shared memory. The segment outlives  *)
(* it: getmemory() of the next one finds it and keeps head and tail. The   *)
(* mutex outlives it too, in a mapped file, and is neither robust nor      *)
(* checked: the init() of every new process of the group initialises it    *)
(* again, whoever holds it.                                                *)
(***************************************************************************)
EXTENDS ShmMQ

CONSTANT MaxCrashes  \* bound on the number of crashes of a behaviour

ASSUME CrashAssumption == MaxCrashes \in Nat

VARIABLE crashes     \* how many there were

rvars == <<vars, crashes>>

RoleOf(p) == IF p \in Producers THEN "producer" ELSE "consumer"

\* A process disappears with its locals. A mutex it holds stays locked.
Crash(p) ==
    /\ pc[p] # "down"
    /\ crashes < MaxCrashes
    /\ crashes' = crashes + 1
    /\ Goto(p, "down")
    /\ reg' = [reg EXCEPT ![p] = [head |-> 0, tail |-> 0]]
    /\ blob' = [blob EXCEPT ![p] = Nil]
    /\ UNCHANGED <<shared, mutex, q, got>>

\* pthread_mutex_init, by a process of a role that locks: whoever held it does
\* not hold it any more.
LockInit(role) == IF role \in LockType THEN [mutex EXCEPT ![role] = NoOne] ELSE mutex

\* Mutants: the two words are cleared although the segment was there, and the
\* head alone is.
Start_Clears(p) ==
    /\ pc[p] = "down"
    /\ Goto(p, "idle")
    /\ head' = 0 /\ tail' = 0
    /\ UNCHANGED <<block, mutex, reg, blob, q, got, crashes>>

Start_Rewinds(p) ==
    /\ pc[p] = "down"
    /\ Goto(p, "idle")
    /\ head' = 0
    /\ UNCHANGED <<tail, block, mutex, reg, blob, q, got, crashes>>

\* CTShmCommu::init() of a new process: CShmMQ::init() maps the segment that is
\* there, and CShmProducerL/CShmComsumerL::init() runs pthread_mutex_init.
Start(p) ==
    /\ pc[p] = "down"
    /\ Goto(p, "idle")
    /\ mutex' = LockInit(RoleOf(p))
    /\ UNCHANGED <<shared, reg, blob, q, got, crashes>>

RInit == Init /\ crashes = 0

RNext ==
    \/ Next /\ UNCHANGED crashes
    \/ \E p \in Procs : Crash(p)
    \/ \E p \in Procs : Start(p)

\* A process that is running a call goes on with it (produce() and comsume()
\* have no loop but the one over expired messages), the consuming side keeps
\* polling, since realrun() calls poll() for ever, and the controller starts a
\* worker that is missing.
RSpec ==
    /\ RInit /\ [][RNext]_rvars
    /\ WF_rvars(\E c \in Consumers : Comsume(c) /\ UNCHANGED crashes)
    /\ \A c \in Consumers :
        /\ WF_rvars(ConsumerStep(c) /\ pc[c] # "idle" /\ UNCHANGED crashes)
        /\ WF_rvars(Start(c))
------------------------------------------------------------------------------
\* A restart loses nothing that was published and repeats nothing that was
\* taken: head and tail are the only truth about the ring, and each of them is
\* stored after the bytes it stands for are dealt with.
RestartKeepsFifo == ImplementsFifo

\* What a process was copying when it died is not seen by anybody: the tail
\* still marks the end of the last whole message.
OnlyWholeMessages == PendingIntact /\ EmptyMeansEmpty
==============================================================================
