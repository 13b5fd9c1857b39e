------------------------------- MODULE ProcMon -------------------------------
(***************************************************************************)
(* The process monitor: the controller (CTProcMonSrv in src/base/procmon.  *)
(* cpp, driven by CDefaultCtrl::realrun) keeps one group of processes at   *)
(* its size, and the processes (CTProcMonCli) report to it by heartbeats   *)
(* through a System V message queue.                                       *)
(*                                                                         *)
(* The controller knows a process only from its heartbeats: what it has    *)
(* forked is not a member of the group before the first one arrives, and   *)
(* a heartbeat in the queue makes a member of a process that is gone.      *)
(*                                                                         *)
(* Time passes while the controller sleeps: any member's timestamp may     *)
(* become older than heartbeat_, and the check of the group may become     *)
(* due. A process may spend any time in the user's code, during start-up   *)
(* or between two reports.                                                 *)
(***************************************************************************)
EXTENDS Integers, Sequences, FiniteSets

CONSTANTS
    Pids,         \* the process table: process ids, as numbers
    MinProc,      \* minprocnum_
    MaxProc,      \* maxprocnum_
    Sick,         \* those that report beyond minsrate_, maxdelay_ or maxmemused_
    QueueLen,     \* how many messages the kernel queue holds
    MaxCrashes,   \* bound on the processes that die by themselves
    MaxRestarts   \* bound on the restarts of the controller

ASSUME GroupAssumption ==
    /\ Pids \subseteq Nat /\ IsFiniteSet(Pids)
    /\ MinProc \in Nat /\ MaxProc \in Nat /\ MinProc <= MaxProc
    /\ Sick \subseteq Pids
    /\ QueueLen \in Nat
    /\ MaxCrashes \in Nat /\ MaxRestarts \in Nat

VARIABLES
    ctrl,        \* where the controller is in its loop
    members,     \* the processes in the buckets of the group
    stale,       \* members whose timestamp_ is older than heartbeat_
    curprocnum,  \* curprocnum_
    due,         \* check_group_interval_ has passed, or there was no check yet
    todo,        \* the members do_check() has still to look at
    mq,          \* the message queue: heartbeats to the controller, orders to processes
    proc,        \* proc[p]: what process p is doing
    crashes, restarts

group == <<members, stale, curprocnum>>
bounds == <<crashes, restarts>>
vars == <<ctrl, group, due, todo, mq, proc, bounds>>
------------------------------------------------------------------------------
(* Processes and messages.                                                 *)

Running == {p \in Pids : proc[p] = "run"}

\* Process ids of which nothing is left anywhere.
Free == {p \in Pids : /\ proc[p] = "none"
                      /\ p \notin members
                      /\ \A i \in DOMAIN mq : mq[i].pid # p}

\* do_fork(): n more processes, or as many as the system lets start. Whether
\* system() succeeds is not looked at.
DoFork(n) ==
    LET new == {p \in Free : Cardinality({r \in Free : r < p}) < n}
    IN  proc' = [p \in Pids |-> IF p \in new THEN "run" ELSE proc[p]]

\* do_kill() with SIGUSR1: the process leaves its loop at the next quit().
DoKill(S) ==
    proc' = [p \in Pids |-> IF p \in S /\ proc[p] = "run" THEN "quit" ELSE proc[p]]

\* send() with IPC_NOWAIT: a message that finds the queue full is lost.
Sent(m) == IF Len(mq) < QueueLen THEN Append(mq, m) ELSE mq

\* The queue without the orders to the processes of S: do_recv(procid), and
\* the receive loop of CTProcMonCli::run().
WithoutOrders(s, S) ==
    LET keep(m) == ~(m.kind = "order" /\ m.pid \in S)
    IN  SelectSeq(s, keep)

\* Mutant: del_proc() returns after the list without counting.
DelProc_Uncounted(S) ==
    /\ members' = members \ S
    /\ stale' = stale \ S
    /\ UNCHANGED curprocnum

\* del_proc(), for every process of S.
DelProc(S) ==
    /\ members' = members \ S
    /\ stale' = stale \ S
    /\ curprocnum' = curprocnum - Cardinality(S)
------------------------------------------------------------------------------
(* The controller: run() = do_recv(MSG_ID_SERVER); do_check(), and the     *)
(* signals after it.                                                       *)

Init ==
    /\ ctrl = "recv_all"
    /\ members = {} /\ stale = {} /\ curprocnum = 0
    /\ due = TRUE
    /\ todo = {}
    /\ mq = << >>
    /\ proc = [p \in Pids |-> "none"]
    /\ crashes = 0 /\ restarts = 0

\* do_recv(0) takes every message, do_recv(MSG_ID_SERVER) the heartbeats.
Receivable ==
    {i \in DOMAIN mq : ctrl = "recv_all" \/ (ctrl = "recv" /\ mq[i].kind = "beat")}

\* One turn of do_recv(): a heartbeat updates or adds its process, an order is
\* discarded. A heartbeat that waited for a controller to start may be old.
DoRecv ==
    /\ Receivable # {}
    /\ \E i \in Receivable :
        /\ \A k \in Receivable : i <= k
        /\ mq' = SubSeq(mq, 1, i - 1) \o SubSeq(mq, i + 1, Len(mq))
        /\ LET m == mq[i]
           IN  IF m.kind = "order"
               THEN UNCHANGED group
               ELSE /\ members' = members \cup {m.pid}
                    /\ \/ stale' = stale \ {m.pid}
                       \/ ctrl = "recv_all" /\ stale' = stale \cup {m.pid}
                    /\ curprocnum' = IF m.pid \in members THEN curprocnum
                                     ELSE curprocnum + 1
    /\ UNCHANGED <<ctrl, due, todo, proc, bounds>>

\* Nothing more to receive.
RecvDone ==
    /\ ctrl \in {"recv", "recv_all"}
    /\ Receivable = {}
    /\ ctrl' = IF ctrl = "recv_all" THEN "recv" ELSE "check_group"
    /\ UNCHANGED <<group, due, todo, mq, proc, bounds>>

\* do_check() goes on to the members.
ToMembers ==
    /\ ctrl' = "check_proc"
    /\ todo' = members'
    /\ UNCHANGED bounds

\* check_group_interval_ has not passed yet.
GroupSkip ==
    /\ ctrl = "check_group"
    /\ ~due
    /\ UNCHANGED <<group, due, mq, proc>>
    /\ ToMembers

\* PROCMON_EVENT_PROCDOWN: too few.
GroupDown ==
    /\ ctrl = "check_group"
    /\ due
    /\ curprocnum < MinProc
    /\ DoFork(MinProc - curprocnum)
    /\ due' = FALSE
    /\ UNCHANGED <<group, mq>>
    /\ ToMembers

\* procdiff for PROCMON_EVENT_PROCUP: down to the maximum, or one less when the
\* group is larger than it must be and was not adjusted lately. (No process
\* reports a watermark_ other than 0, so check_groupbusy() never finds one busy.)
Surplus == IF curprocnum > MaxProc THEN curprocnum - MaxProc ELSE 1

\* PROCMON_EVENT_PROCUP: too many. The first ones in the order of the buckets,
\* whichever these are, are told to quit and forgotten.
GroupUp ==
    /\ ctrl = "check_group"
    /\ due
    /\ curprocnum > MinProc
    /\ \E S \in SUBSET members :
        /\ Cardinality(S) = Surplus
        /\ DoKill(S)
        /\ mq' = WithoutOrders(mq, S)
        /\ DelProc(S)
    /\ due' = FALSE
    /\ ToMembers

GroupOk ==
    /\ ctrl = "check_group"
    /\ due
    /\ curprocnum \in MinProc .. MaxProc
    /\ due' = FALSE
    /\ UNCHANGED <<group, mq, proc>>
    /\ ToMembers

\* The member whose turn it is, in the order of the buckets.
Turn(p) == ctrl = "check_proc" /\ p \in todo /\ \A r \in todo : p <= r

\* Mutants: the timestamp alone decides; the orders of a process come first.
Dead_Timestamp(p) == p \in stale
Dead_AfterOrders(p) == p \in stale \ Sick /\ proc[p] = "none"

\* check_proc() for a member with an old timestamp that has no /proc entry.
Dead(p) == p \in stale /\ proc[p] = "none"

\* PROCMON_EVENT_PROCDEAD: the kill finds nobody, its orders are removed, it is
\* forgotten and one process is forked.
ProcDead(p) ==
    /\ Turn(p)
    /\ Dead(p)
    /\ mq' = WithoutOrders(mq, {p})
    /\ DelProc({p})
    /\ DoFork(1)
    /\ todo' = todo \ {p}
    /\ UNCHANGED <<ctrl, due, bounds>>

\* PROCMON_EVENT_LOWSRATE, LATENCY or OTFMEM: do_order(PROCMON_CMD_LOAD).
ProcSick(p) ==
    /\ Turn(p)
    /\ ~Dead(p) /\ p \in Sick
    /\ mq' = Sent([kind |-> "order", pid |-> p])
    /\ todo' = todo \ {p}
    /\ UNCHANGED <<ctrl, group, due, proc, bounds>>

ProcOk(p) ==
    /\ Turn(p)
    /\ ~Dead(p) /\ p \notin Sick
    /\ todo' = todo \ {p}
    /\ UNCHANGED <<ctrl, group, due, mq, proc, bounds>>

\* The loop sleeps for 3 seconds and starts again.
Sleep ==
    /\ ctrl = "check_proc" /\ todo = {}
    /\ ctrl' = "recv"
    /\ \E S \in SUBSET members : stale' = stale \cup S
    /\ due' \in {due, TRUE}
    /\ UNCHANGED <<members, curprocnum, todo, mq, proc, bounds>>

\* SIGUSR2: initconf(true) ends in set_commu(), which takes every message.
Reload ==
    /\ ctrl = "check_proc" /\ todo = {}
    /\ ctrl' = "recv_all"
    /\ UNCHANGED <<group, due, todo, mq, proc, bounds>>

\* SIGUSR1: killall(SIGUSR1), and the controller ends.
Quit ==
    /\ ctrl = "check_proc" /\ todo = {}
    /\ ctrl' = "stopped"
    /\ DoKill(members)
    /\ UNCHANGED <<group, due, todo, mq, bounds>>

\* A controller is started after one that quit or crashed. Its set_commu() finds
\* what is in the queue.
Restart ==
    /\ restarts < MaxRestarts
    /\ restarts' = restarts + 1
    /\ ctrl' = "recv_all"
    /\ members' = {} /\ stale' = {} /\ curprocnum' = 0
    /\ due' = TRUE
    /\ todo' = {}
    /\ UNCHANGED <<mq, proc, crashes>>

CtrlStep ==
    \/ DoRecv \/ RecvDone
    \/ GroupSkip \/ GroupDown \/ GroupUp \/ GroupOk
    \/ \E p \in Pids : ProcDead(p) \/ ProcSick(p) \/ ProcOk(p)
    \/ Sleep
------------------------------------------------------------------------------
(* The processes.                                                          *)

\* CTProcMonCli::run(): report, then take the orders. A process reports every
\* moni_inter_time_ seconds, longer than a turn of the controller, so that its
\* last report has been received; one that arrives during do_recv() is received
\* by it like one that came before. After its report the process looks at the
\* quit flag.
Beat(p) ==
    /\ proc[p] \in {"run", "quit"}
    /\ ctrl \notin {"recv", "recv_all"}
    /\ \A i \in DOMAIN mq : mq[i].kind = "beat" => mq[i].pid # p
    /\ mq' = WithoutOrders(Sent([kind |-> "beat", pid |-> p]), {p})
    /\ proc' = [proc EXCEPT ![p] = IF @ = "quit" THEN "none" ELSE @]
    /\ UNCHANGED <<ctrl, group, due, todo, bounds>>

\* The main loop sees quit() and the process ends.
Exit(p) ==
    /\ proc[p] = "quit"
    /\ proc' = [proc EXCEPT ![p] = "none"]
    /\ UNCHANGED <<ctrl, group, due, todo, mq, bounds>>

\* A process dies by itself.
Die(p) ==
    /\ proc[p] = "run"
    /\ crashes < MaxCrashes
    /\ crashes' = crashes + 1
    /\ proc' = [proc EXCEPT ![p] = "none"]
    /\ UNCHANGED <<ctrl, group, due, todo, mq, restarts>>

Next ==
    \/ CtrlStep
    \/ Reload \/ Quit \/ Restart
    \/ \E p \in Pids : Beat(p) \/ Exit(p) \/ Die(p)

Spec == Init /\ [][Next]_vars

\* The controller's loop goes on, and a process told to quit gets to the end of
\* its loop. Of all the times the controller sleeps, in the end the interval
\* between checks of the group has passed, and the last report of a process that
\* is gone has become old. Nothing is assumed of the processes that run: the
\* user's code may keep one busy, and silent, for ever.
FairSpec ==
    /\ Spec
    /\ WF_vars(CtrlStep)
    /\ SF_vars(Sleep /\ due')
    /\ \A p \in Pids : WF_vars(Exit(p)) /\ SF_vars(Sleep /\ Dead(p)')
------------------------------------------------------------------------------
(* Properties.                                                             *)

\* curprocnum_, from which the size of the group is decided, is the number of
\* processes on the lists: add_proc() and del_proc(), which counts down whether
\* or not it has found the process, stay in step.
CountsMembers == curprocnum = Cardinality(members)

\* A live process is dropped only to shrink a group, and never so far that fewer
\* than minprocnum_ members are left: an old timestamp alone, of a process that
\* is kept busy by its work, is no reason. (A new controller starts with none.)
SparesLive ==
    [][ \A p \in members \ members' :
          proc[p] # "none" => Cardinality(members') >= MinProc \/ restarts' # restarts
      ]_vars

\* However processes die, however reports are lost, late or left behind by the
\* dead, and although the wrong member may be told to quit, the group always
\* gets back to minprocnum_ running processes while the controller runs.
Recovers ==
    []<>(Cardinality(Running) >= MinProc \/ ctrl = "stopped")

\* A member whose process is gone, also one made by a report it left behind, is
\* forgotten in the end.
GhostsGo ==
    \A p \in Pids :
        (p \in members /\ proc[p] = "none") ~> (p \notin members \/ ctrl = "stopped")
==============================================================================
