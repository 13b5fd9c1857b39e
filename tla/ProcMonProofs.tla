---------------------------- MODULE ProcMonProofs ----------------------------
(***************************************************************************)
(* Proofs about ProcMon for every process table, group size, queue and     *)
(* number of crashes and restarts.                                         *)
(***************************************************************************)
EXTENDS ProcMon, FiniteSetTheorems, TLAPS

\* The inductive invariant. del_proc() is only called for processes that are on
\* a list, because what do_check() has still to look at is on the lists.
IInv ==
    /\ IsFiniteSet(members)
    /\ todo \subseteq members
    /\ CountsMembers
    /\ restarts \in Nat

\* Dropping processes that are on the lists keeps the count right.
LEMMA DelProcCounts ==
    ASSUME NEW S, S \subseteq members, IInv, DelProc(S)
    PROVE  /\ IsFiniteSet(members')
           /\ CountsMembers'
           /\ curprocnum' = curprocnum - Cardinality(S)
           /\ Cardinality(S) \in Nat
<1>1. IsFiniteSet(S) /\ S = S \cap members
  BY FS_Subset DEF IInv
<1>2. Cardinality(S) \in Nat /\ Cardinality(members) \in Nat
  BY <1>1, FS_CardinalityType DEF IInv
<1>3. /\ IsFiniteSet(members \ S)
      /\ Cardinality(members \ S) = Cardinality(members) - Cardinality(members \cap S)
  BY FS_Difference DEF IInv
<1>4. members \cap S = S
  BY <1>1
<1> QED BY <1>2, <1>3, <1>4 DEF DelProc, IInv, CountsMembers

\* A heartbeat counts the process it adds, and only then.
LEMMA DoRecvStep == IInv /\ DoRecv => IInv'
<1> SUFFICES ASSUME IInv, DoRecv PROVE IInv'
  OBVIOUS
<1>1. todo' = todo /\ restarts' = restarts
  BY DEF DoRecv, bounds
<1>2. CASE UNCHANGED group
  BY <1>1, <1>2 DEF IInv, CountsMembers, group
<1>3. ASSUME NEW x, members' = members \cup {x},
             curprocnum' = IF x \in members THEN curprocnum ELSE curprocnum + 1
      PROVE  IInv'
  <2>1. /\ IsFiniteSet(members')
        /\ Cardinality(members') = IF x \in members THEN Cardinality(members)
                                   ELSE Cardinality(members) + 1
    BY <1>3, FS_AddElement DEF IInv
  <2> QED BY <1>1, <1>3, <2>1 DEF IInv, CountsMembers
<1> QED BY <1>2, <1>3 DEF DoRecv

\* Shrinking the group drops members only, and do_check() goes on with the rest.
LEMMA GroupUpStep == IInv /\ GroupUp => IInv'
<1> SUFFICES ASSUME IInv, GroupUp PROVE IInv'
  OBVIOUS
<1>1. PICK S \in SUBSET members : DelProc(S)
  BY DEF GroupUp
<1>2. IsFiniteSet(members') /\ CountsMembers'
  BY <1>1, DelProcCounts
<1>3. todo' = members' /\ restarts' = restarts
  BY DEF GroupUp, ToMembers, bounds
<1> QED BY <1>2, <1>3 DEF IInv

\* A dead member is on a list when it is dropped.
LEMMA ProcDeadStep == ASSUME NEW p \in Pids PROVE IInv /\ ProcDead(p) => IInv'
<1> SUFFICES ASSUME IInv, ProcDead(p) PROVE IInv'
  OBVIOUS
<1>1. {p} \subseteq members /\ DelProc({p})
  BY DEF ProcDead, Turn, IInv
<1>2. IsFiniteSet(members') /\ CountsMembers'
  BY <1>1, DelProcCounts
<1>3. todo' \subseteq members' /\ restarts' = restarts
  BY <1>1 DEF ProcDead, DelProc, IInv, bounds
<1> QED BY <1>2, <1>3 DEF IInv

\* Every step keeps the invariant.
LEMMA NextIInv == IInv /\ [Next]_vars => IInv'
<1> SUFFICES ASSUME IInv, [Next]_vars PROVE IInv'
  OBVIOUS
<1>1. CASE DoRecv
  BY <1>1, DoRecvStep
<1>2. CASE GroupUp
  BY <1>2, GroupUpStep
<1>3. ASSUME NEW p \in Pids, ProcDead(p) PROVE IInv'
  BY <1>3, ProcDeadStep
<1>4. CASE Restart
  BY <1>4, FS_EmptySet DEF IInv, Restart, CountsMembers
<1>5. ASSUME UNCHANGED group, todo' \subseteq members, restarts' = restarts
      PROVE  IInv'
  BY <1>5 DEF IInv, CountsMembers, group
<1>6. CASE GroupSkip \/ GroupDown \/ GroupOk
  BY <1>5, <1>6 DEF GroupSkip, GroupDown, GroupOk, ToMembers, group, bounds
<1>7. ASSUME NEW p \in Pids, ProcSick(p) \/ ProcOk(p) PROVE IInv'
  BY <1>5, <1>7 DEF IInv, ProcSick, ProcOk, bounds
<1>8. CASE RecvDone \/ Reload \/ Quit
  BY <1>5, <1>8 DEF IInv, RecvDone, Reload, Quit, bounds
<1>9. CASE Sleep
  BY <1>9 DEF IInv, Sleep, CountsMembers, bounds
<1>10. ASSUME NEW p \in Pids, Beat(p) \/ Exit(p) \/ Die(p) PROVE IInv'
  BY <1>5, <1>10 DEF IInv, Beat, Exit, Die, bounds
<1>11. CASE UNCHANGED vars
  BY <1>5, <1>11 DEF IInv, vars, bounds
<1> QED BY <1>1, <1>2, <1>3, <1>4, <1>6, <1>7, <1>8, <1>9, <1>10, <1>11
        DEF Next, CtrlStep

\* The invariant holds throughout.
THEOREM Invariance == Spec => []IInv
<1>1. Init => IInv
  BY FS_EmptySet DEF Init, IInv, CountsMembers
<1> QED BY <1>1, NextIInv, PTL DEF Spec

\* curprocnum_ is the number of processes on the lists of the group.
THEOREM CountCorrect == Spec => []CountsMembers
<1>1. IInv => CountsMembers
  BY DEF IInv
<1> QED BY <1>1, Invariance, PTL

\* The monitor drops a live process only to shrink a group that stays large
\* enough.
THEOREM LiveSpared == Spec => SparesLive
<1> DEFINE A == \A p \in members \ members' :
                  proc[p] # "none" =>
                    Cardinality(members') >= MinProc \/ restarts' # restarts
<1>1. ASSUME IInv, [Next]_vars PROVE [A]_vars
  <2> USE <1>1
  <2> SUFFICES ASSUME Next PROVE A
    OBVIOUS
  <2>1. CASE GroupUp
    <3>1. PICK S \in SUBSET members : Cardinality(S) = Surplus /\ DelProc(S)
      BY <2>1 DEF GroupUp
    <3>2. CountsMembers' /\ curprocnum' = curprocnum - Surplus /\ curprocnum \in Nat
      BY <3>1, DelProcCounts, FS_CardinalityType DEF IInv, CountsMembers
    <3>3. curprocnum > MinProc
      BY <2>1 DEF GroupUp
    <3>4. curprocnum - Surplus >= MinProc
      BY <3>2, <3>3, GroupAssumption DEF Surplus
    <3> QED BY <3>2, <3>4 DEF CountsMembers
  <2>2. ASSUME NEW p \in Pids, ProcDead(p) PROVE A
    BY <2>2 DEF ProcDead, DelProc, Dead
  <2>3. CASE Restart
    BY <2>3 DEF Restart, IInv
  <2>4. ASSUME members \subseteq members' PROVE A
    BY <2>4
  <2> HIDE DEF A
  <2> QED BY <2>1, <2>2, <2>3, <2>4
         DEF Next, CtrlStep, DoRecv, RecvDone, GroupSkip, GroupDown, GroupOk,
             ProcSick, ProcOk, Sleep, Reload, Quit, Beat, Exit, Die, group
<1>2. Spec => [][A]_vars
  BY <1>1, Invariance, PTL DEF Spec
<1> QED BY <1>2 DEF SparesLive
==============================================================================
