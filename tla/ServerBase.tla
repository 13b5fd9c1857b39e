----------------------------- MODULE ServerBase -----------------------------
(***************************************************************************)
(* The main loop of every program and the signals that steer it            *)
(* (CServerBase, serverbase.cpp, and the realrun of each program).  A      *)
(* signal handler sets a bit of flag_; once in a round of the loop the     *)
(* program tests and clears the bits one after the other, and acts.        *)
(*                                                                         *)
(* flag_ is a plain byte.  The test and the &= of the loop may be one      *)
(* access each, or a load for both of them or for each, and a store; what  *)
(* the store keeps is what was set when it was loaded.  Handlers may       *)
(* interrupt one another; a burst of them is one or more steps, and a bit  *)
(* that one of them loses counts as never set.                             *)
(***************************************************************************)
EXTENDS Integers, Sequences

CONSTANT Program      \* the programs that are looked at

VARIABLES
    prog,     \* the program
    stage,    \* where it is, and the bit of the loop's order it looks at
    flag,     \* the bits of flag_
    loaded    \* flag_ as the loop has loaded it

serverVars == <<prog, stage, flag, loaded>>

Booting == <<"boot", 0>>
Polling == <<"poll", 0>>
Stopped == <<"stopped", 0>>
Killed  == <<"killed", 0>>

Signal == {"quit", "reload", "module"}    \* SIGUSR1, SIGUSR2, SIGUSR3

-----------------------------------------------------------------------------
(* The order in which the loops look at the bits                           *)

WorkerLoop == <<"reload", "module", "quit">>
ProxyLoop  == <<"reload", "module", "quit">>
CtrlLoop   == <<"reload", "module", "quit">>
UpdateLoop == <<"reload", "quit", "module">>
ReportLoop == <<"reload", "quit", "module">>

Loop == CASE prog = "worker" -> WorkerLoop
          [] prog = "proxy"  -> ProxyLoop
          [] prog = "ctrl"   -> CtrlLoop
          [] prog = "update" -> UpdateLoop
          [] prog = "report" -> ReportLoop

-----------------------------------------------------------------------------
ServerBaseInit == /\ prog \in Program
                  /\ stage = Booting
                  /\ flag = {}
                  /\ loaded = {}

\* the program has stopped
ServerBaseStopped == prog \in Program /\ stage = Stopped /\ flag = {} /\ loaded = {}

\* startup: until the handlers are there, a signal kills
startup == /\ stage = Booting
           /\ stage' = Polling
           /\ flag' = {}
           /\ UNCHANGED <<prog, loaded>>

\* sigusr1_handle, sigusr2_handle, sigusr3_handle
Handle(s) == /\ stage \notin {Stopped, Killed}
             /\ IF stage = Booting
                THEN stage' = Killed /\ UNCHANGED flag
                ELSE flag' = flag \cup {s} /\ UNCHANGED stage
             /\ UNCHANGED <<prog, loaded>>

After(i) == IF i = Len(Loop) THEN Polling ELSE <<"test", i + 1>>

\* the body of the loop: polls, timers, reports
Poll == /\ stage = Polling
        /\ stage' = <<"test", 1>>
        /\ UNCHANGED <<prog, flag, loaded>>

\* the test in reload, reloadmoduleconfig and quit
TestFlag(i) == /\ stage = <<"test", i>>
               /\ loaded' = flag
               /\ stage' = IF Loop[i] \in flag THEN <<"clear", i>> ELSE After(i)
               /\ UNCHANGED <<prog, flag>>

\* mutant of Cleared: the other bits are cleared with it
Cleared_All(f, s) == {}

Cleared(f, s) == f \ {s}

\* flag_ &= ~bit
ClearFlag(i) == /\ stage = <<"clear", i>>
                /\ \E f \in SUBSET flag :
                     loaded \subseteq f /\ flag' = Cleared(f, Loop[i])
                /\ stage' = <<"act", i>>
                /\ loaded' = {}
                /\ UNCHANGED prog

\* initconf(TRUE), the module's reload function, or the end of the loop; the
\* controller passes the signal on to its members
Act(i) == /\ stage = <<"act", i>>
          /\ stage' = IF Loop[i] = "quit" THEN Stopped ELSE After(i)
          /\ UNCHANGED <<prog, flag, loaded>>

LoopStep == \/ startup \/ Poll
            \/ \E i \in 1 .. 3 : TestFlag(i) \/ ClearFlag(i) \/ Act(i)

ServerBaseNext == LoopStep \/ \E s \in Signal : Handle(s)

\* a program's loop goes on; user code and polls return
ServerBaseFair == WF_serverVars(LoopStep)

-----------------------------------------------------------------------------
(* Property                                                                *)

ActsOn(s) == \E i \in 1 .. 3 : stage = <<"act", i>> /\ Loop[i] = s

\* A signal whose bit is set when a round of the loop begins is acted on,
\* unless the program stops first, whichever signals come between a test and
\* the store behind it (reload, reloadmoduleconfig, quit, and the handlers).
SignalHeeded ==
    \A s \in Signal : (s \in flag /\ stage = Polling) ~> (ActsOn(s) \/ stage = Stopped)
=============================================================================
