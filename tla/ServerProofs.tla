---------------------------- MODULE ServerProofs ----------------------------
(***************************************************************************)
(* What module Server promises for any number of processes, connections,   *)
(* files and slots, and under every fault.  Everything rests on one        *)
(* inductive invariant: procs never falls below the number of processes the*)
(* pool holds, the one being counted included, and equals it until SIGHUP. *)
(***************************************************************************)
EXTENDS Server, FiniteSetTheorems, SequenceTheorems, TLAPS

\* The bound procs keeps on the pool, also after wait_proc() has stopped counting.
PoolCovered == IsFiniteSet(Unreaped) /\ Cardinality(Unreaped) + Owed <= procs

\* add_pid_monitor() is given the pid fork() returned.
FreshOK == pc = "monitor" => fresh \in Pid

IInv == TypeOK /\ FreshOK /\ PoolCovered /\ ProcsExact

-----------------------------------------------------------------------------
(* How the pool changes. *)

\* A step that frees no process and makes none leaves the pool as it is.
LEMMA PoolSame ==
  ASSUME \A p \in Pid : child'[p] = "free" <=> child[p] = "free"
  PROVE  Unreaped' = Unreaped
BY DEF Unreaped

\* fork() adds the process it makes.
LEMMA PoolGrows ==
  ASSUME TypeOK, NEW p \in Pid, NEW s \in {"idle", "serving", "zombie"},
         child' = [child EXCEPT ![p] = s]
  PROVE  Unreaped' = Unreaped \cup {p}
BY DEF Unreaped, TypeOK

\* waitpid() takes one process away.
LEMMA PoolShrinks ==
  ASSUME TypeOK, NEW p \in Pid, child' = [child EXCEPT ![p] = "free"]
  PROVE  Unreaped' = Unreaped \ {p}
BY DEF Unreaped, TypeOK

\* When the server exits processes only leave the pool.
LEMMA PoolOrphaned ==
  ASSUME TypeOK, ServerExit
  PROVE  Unreaped' \in SUBSET Unreaped
BY DEF Unreaped, TypeOK, ServerExit

-----------------------------------------------------------------------------
(* The initial state. *)

LEMMA InitIInv == Init => IInv
<1> SUFFICES ASSUME Init PROVE IInv
  OBVIOUS
<1>1. Unreaped = {}
  BY DEF Init, Unreaped
<1>2. IsFiniteSet(Unreaped) /\ Cardinality(Unreaped) = 0
  BY <1>1, FS_EmptySet
<1>3. TypeOK
  <2>1. pc \in PcStates /\ procs \in 0..MaxProcs
    BY MaxProcsAssumption DEF Init, PcStates
  <2>2. /\ child \in [Pid -> {"free", "idle", "serving", "stuck", "zombie"}]
        /\ backlog \in Seq(Conn)
    BY DEF Init
  <2> QED
    BY <2>1, <2>2 DEF Init, TypeOK
<1> QED
  BY <1>2, <1>3 DEF Init, IInv, FreshOK, PoolCovered, ProcsExact, Owed

-----------------------------------------------------------------------------
(* The types, and the pid that is about to be monitored. *)

LEMMA TypeStep ==
  ASSUME IInv, [Next]_vars
  PROVE  TypeOK' /\ FreshOK'
<1> USE DEF TypeOK, FreshOK, IInv, PcStates, workerVars, kernelVars, serverVars
<1>1. CASE Loop
  BY <1>1 DEF Loop
<1>2. CASE EnterPoll
  BY <1>2 DEF EnterPoll
<1>3. CASE Poll
  BY <1>3 DEF Poll, Ready, Events
<1>4. CASE NextEvent
  BY <1>4 DEF NextEvent
<1>5. CASE WaitPid
  BY <1>5 DEF WaitPid, Zombies
<1>6. CASE Count
  <2>1. Cardinality(Unreaped) \in Nat
    BY FS_CardinalityType DEF PoolCovered
  <2>2. Cardinality(Unreaped) + 1 <= procs
    BY <1>6 DEF PoolCovered, Owed, Count
  <2>3. procs' \in 0..MaxProcs
    BY <1>6, <2>1, <2>2, MaxProcsAssumption DEF Count
  <2> QED
    BY <1>6, <2>3 DEF Count
<1>7. CASE PoolFull
  BY <1>7 DEF PoolFull
<1>8. CASE Incoming
  <2>1. procs' \in 0..MaxProcs
    BY <1>8, MaxProcsAssumption DEF Incoming
  <2> QED
    BY <1>8, <2>1 DEF Incoming
<1>9. CASE AddPidMonitor
  BY <1>9 DEF AddPidMonitor
<1>10. CASE WaitAgain
  BY <1>10 DEF WaitAgain
<1>11. CASE Reload
  BY <1>11 DEF Reload
<1>12. CASE KillGroup
  BY <1>12 DEF KillGroup, ServerExit
<1>13. CASE ForkFails
  <2>1. procs' \in 0..MaxProcs
    BY <1>13, MaxProcsAssumption DEF ForkFails
  <2> QED
    BY <1>13, <2>1 DEF ForkFails, ServerExit
<1>14. CASE Hup
  BY <1>14 DEF Hup
<1>15. CASE Term
  BY <1>15 DEF Term, ServerExit
<1>16. CASE \E p \in Pid : Accept(p)
  <2> PICK p \in Pid : Accept(p)
    BY <1>16
  <2>1. Head(backlog) \in Conn /\ Tail(backlog) \in Seq(Conn)
    BY HeadTailProperties DEF Accept
  <2> QED
    BY <2>1 DEF Accept
<1>23. CASE \E p \in Pid : AcceptFails(p)
  <2> PICK p \in Pid : AcceptFails(p)
    BY <1>23
  <2>1. Tail(backlog) \in Seq(Conn)
    BY HeadTailProperties DEF AcceptFails
  <2> QED
    BY <2>1 DEF AcceptFails, Exit
<1>17. CASE \E p \in Pid : Finish(p) \/ Hang(p) \/ Woken(p) \/ Killed(p)
  BY <1>17 DEF Finish, Hang, Woken, Killed, Exit
<1>18. CASE \E c \in Conn : Connect(c)
  BY <1>18 DEF Connect
<1>19. CASE \E i \in 1..Len(backlog) : Abort(i)
  <2> PICK i \in 1..Len(backlog) : Abort(i)
    BY <1>19
  <2>1. /\ SubSeq(backlog, 1, i - 1) \in Seq(Conn)
        /\ SubSeq(backlog, i + 1, Len(backlog)) \in Seq(Conn)
    OBVIOUS
  <2>2. backlog' \in Seq(Conn)
    BY <2>1 DEF Abort
  <2> QED
    BY <2>2 DEF Abort
<1>20. CASE Reset
  BY <1>20 DEF Reset
<1>21. CASE \E f \in File : Touch(f)
  BY <1>21 DEF Touch
<1>22. CASE UNCHANGED vars
  BY <1>22 DEF vars
<1> QED
  BY <1>1, <1>2, <1>3, <1>4, <1>5, <1>6, <1>7, <1>8, <1>9, <1>10, <1>11, <1>12,
     <1>13, <1>14, <1>15, <1>16, <1>17, <1>18, <1>19, <1>20, <1>21, <1>22, <1>23
     DEF Next, ServerStep

-----------------------------------------------------------------------------
(* The pool. *)

LEMMA PoolStep ==
  ASSUME IInv, [Next]_vars
  PROVE  PoolCovered' /\ ProcsExact'
<1> USE DEF IInv, PoolCovered, ProcsExact, Owed, workerVars, kernelVars, serverVars
<1>a. Cardinality(Unreaped) \in Nat /\ procs \in Nat
  BY FS_CardinalityType, MaxProcsAssumption DEF TypeOK
<1>same. ASSUME UNCHANGED child
         PROVE  Unreaped' = Unreaped
  BY <1>same DEF Unreaped
<1>orphan. ASSUME ServerExit, procs' >= procs, procs' \in Nat
           PROVE  PoolCovered' /\ ProcsExact'
  <2>1. IsFiniteSet(Unreaped') /\ Cardinality(Unreaped') <= Cardinality(Unreaped)
    BY <1>orphan, PoolOrphaned, FS_Subset
  <2>2. Cardinality(Unreaped') \in Nat
    BY <2>1, FS_CardinalityType
  <2> QED
    BY <1>orphan, <1>a, <2>1, <2>2 DEF ServerExit
<1>1. CASE Loop \/ EnterPoll \/ Poll \/ NextEvent
  BY <1>1, <1>same DEF Loop, EnterPoll, Poll, NextEvent
<1>2. CASE PoolFull \/ WaitAgain \/ Reload \/ AddPidMonitor
  BY <1>2, <1>same DEF PoolFull, WaitAgain, Reload, AddPidMonitor
<1>3. CASE WaitPid
  <2>1. CASE \E p \in Zombies : child' = [child EXCEPT ![p] = "free"] /\ pc' = "count"
    <3> PICK p \in Zombies : child' = [child EXCEPT ![p] = "free"] /\ pc' = "count"
      BY <2>1
    <3>1. p \in Unreaped /\ p \in Pid
      BY DEF Zombies, Unreaped
    <3>2. Unreaped' = Unreaped \ {p}
      BY <3>1, PoolShrinks
    <3>3. IsFiniteSet(Unreaped') /\ Cardinality(Unreaped') = Cardinality(Unreaped) - 1
      BY <3>1, <3>2, FS_RemoveElement
    <3> QED
      BY <1>3, <1>a, <3>3 DEF WaitPid
  <2>2. CASE child' = child /\ pc' # "count"
    BY <1>3, <2>2, <1>same DEF WaitPid
  <2> QED
    BY <1>3, <2>1, <2>2 DEF WaitPid
<1>4. CASE Count
  BY <1>4, <1>a, <1>same DEF Count
<1>5. CASE Incoming
  <2> PICK p \in Pid \ Unreaped : child' = [child EXCEPT ![p] = "idle"]
    BY <1>5 DEF Incoming
  <2>1. Unreaped' = Unreaped \cup {p}
    BY PoolGrows
  <2>2. IsFiniteSet(Unreaped') /\ Cardinality(Unreaped') = Cardinality(Unreaped) + 1
    BY <2>1, FS_AddElement
  <2> QED
    BY <1>5, <1>a, <2>2 DEF Incoming
<1>6. CASE KillGroup
  BY <1>6, <1>a, <1>orphan DEF KillGroup
<1>7. CASE ForkFails
  BY <1>7, <1>a, <1>orphan DEF ForkFails
<1>8. CASE Hup
  BY <1>8, <1>same DEF Hup
<1>9. CASE Term
  BY <1>9, <1>a, <1>orphan DEF Term
<1>10. CASE \E p \in Pid : Accept(p) \/ Hang(p)
  <2> PICK p \in Pid : Accept(p) \/ Hang(p)
    BY <1>10
  <2>1. Unreaped' = Unreaped
    BY PoolSame DEF Accept, Hang, TypeOK
  <2> QED
    BY <2>1 DEF Accept, Hang
<1>11. CASE \E p \in Pid : AcceptFails(p) \/ Finish(p) \/ Woken(p) \/ Killed(p)
  <2> PICK p \in Pid : Exit(p) /\ child[p] # "free"
    BY <1>11 DEF AcceptFails, Finish, Woken, Killed
  <2>1. CASE pc # "exited"
    <3>1. Unreaped' = Unreaped
      BY <2>1, PoolSame DEF Exit, TypeOK
    <3> QED
      BY <3>1 DEF Exit
  <2>2. CASE pc = "exited"
    <3>1. child' = [child EXCEPT ![p] = "free"]
      BY <2>2 DEF Exit
    <3>2. Unreaped' = Unreaped \ {p}
      BY <3>1, PoolShrinks
    <3>3. IsFiniteSet(Unreaped') /\ Cardinality(Unreaped') <= Cardinality(Unreaped)
      BY <3>2, FS_Subset
    <3>4. Cardinality(Unreaped') \in Nat
      BY <3>3, FS_CardinalityType
    <3> QED
      BY <2>2, <1>a, <3>3, <3>4 DEF Exit
  <2> QED
    BY <2>1, <2>2
<1>12. CASE \/ \E c \in Conn : Connect(c)
            \/ \E i \in 1..Len(backlog) : Abort(i)
            \/ Reset
            \/ \E f \in File : Touch(f)
  BY <1>12, <1>same DEF Connect, Abort, Reset, Touch
<1>13. CASE UNCHANGED vars
  BY <1>13, <1>same DEF vars
<1> QED
  BY <1>1, <1>2, <1>3, <1>4, <1>5, <1>6, <1>7, <1>8, <1>9, <1>10, <1>11, <1>12, <1>13
     DEF Next, ServerStep

-----------------------------------------------------------------------------
(* The invariant, and what follows from it. *)

LEMMA Invariance == Spec => []IInv
<1>1. IInv /\ [Next]_vars => IInv'
  BY TypeStep, PoolStep DEF IInv
<1> QED
  BY InitIInv, <1>1, PTL DEF Spec

\* Every variable keeps its type, so procs never leaves 0..MAX_PROCS: no worker is
\* counted out that was not counted in (server.c:29 and 43).
THEOREM TypeCorrect == Spec => []TypeOK
<1>1. IInv => TypeOK
  BY DEF IInv
<1> QED
  BY <1>1, Invariance, PTL

\* The pool holds at most MAX_PROCS workers and zombies, for any number of processes
\* and whatever fails (server.c:28).
THEOREM PoolIsBounded == Spec => []PoolBounded
<1>1. IInv => PoolBounded
  <2> SUFFICES ASSUME IInv PROVE PoolBounded
    OBVIOUS
  <2>1. Cardinality(Unreaped) \in Nat /\ Owed \in Nat /\ procs \in 0..MaxProcs
    BY FS_CardinalityType DEF IInv, PoolCovered, Owed, TypeOK
  <2> QED
    BY <2>1, MaxProcsAssumption DEF IInv, PoolCovered, PoolBounded
<1> QED
  BY <1>1, Invariance, PTL

\* Until SIGHUP the server's count of its processes is exact (server.c:24-46).
THEOREM ProcsIsExact == Spec => []ProcsExact
<1>1. IInv => ProcsExact
  BY DEF IInv
<1> QED
  BY <1>1, Invariance, PTL

-----------------------------------------------------------------------------
(* Refinement of Service. *)

\* An idle worker is not busy, so it can be only with fewer than MaxProcs busy ones.
LEMMA IdleMeansRoom ==
  ASSUME IInv, NEW p \in Pid, child[p] = "idle"
  PROVE  Cardinality(Busy) < MaxProcs
<1>1. p \notin Busy /\ Busy \cup {p} \in SUBSET Unreaped
  BY DEF Busy, Unreaped
<1>2. /\ IsFiniteSet(Busy \cup {p})
      /\ Cardinality(Busy \cup {p}) <= Cardinality(Unreaped)
  BY <1>1, FS_Subset DEF IInv, PoolCovered
<1>3. IsFiniteSet(Busy) /\ Cardinality(Busy \cup {p}) = Cardinality(Busy) + 1
  <2>1. IsFiniteSet(Busy)
    BY <1>2, FS_Subset
  <2> QED
    BY <1>1, <2>1, FS_AddElement
<1>4. Cardinality(Busy) \in Nat /\ Cardinality(Unreaped) \in Nat
  BY <1>3, FS_CardinalityType DEF IInv, PoolCovered
<1> QED
  BY <1>2, <1>3, <1>4, MaxProcsAssumption DEF IInv, PoolCovered, Owed, TypeOK

LEMMA ServiceStep ==
  ASSUME IInv, [Next]_vars
  PROVE  [Svc!Next]_(Svc!vars)
<1> USE DEF IInv, workerVars, kernelVars, serverVars
<1> DEFINE Stutter == backlog' = backlog /\ Busy' = Busy /\ (pc' = "exited" <=> pc = "exited")
           Closes  == backlog' = backlog /\ Busy' = Busy /\ pc # "exited" /\ pc' = "exited"
<1>stutter. Stutter => UNCHANGED Svc!vars
  BY DEF Svc!vars
<1>closes. Closes => Svc!Next
  BY DEF Svc!Next, Svc!Close
<1>busy. ASSUME \A p \in Pid : child'[p] \in {"serving", "stuck"} <=> child[p] \in {"serving", "stuck"}
         PROVE  Busy' = Busy
  BY <1>busy DEF Busy
<1>orphan. ServerExit => Busy' = Busy
  BY <1>busy DEF ServerExit
<1>1. CASE Loop \/ EnterPoll \/ Poll \/ NextEvent \/ Count \/ PoolFull \/ AddPidMonitor
           \/ WaitAgain \/ Reload \/ Hup \/ \E f \in File : Touch(f)
  <2>1. Stutter
    BY <1>1, <1>busy DEF Loop, EnterPoll, Poll, NextEvent, Count, PoolFull, AddPidMonitor,
                         WaitAgain, Reload, Hup, Touch
  <2> QED
    BY <2>1, <1>stutter
<1>2. CASE WaitPid
  <2>1. Busy' = Busy
    BY <1>2, <1>busy DEF WaitPid, Zombies, TypeOK
  <2> QED
    BY <1>2, <2>1, <1>stutter DEF WaitPid
<1>3. CASE Incoming
  <2>1. Busy' = Busy
    BY <1>3, <1>busy DEF Incoming, Unreaped, TypeOK
  <2> QED
    BY <1>3, <2>1, <1>stutter DEF Incoming
<1>4. CASE KillGroup \/ ForkFails \/ Term
  <2>1. Closes
    BY <1>4, <1>orphan DEF KillGroup, ForkFails, Term, ServerExit
  <2> QED
    BY <2>1, <1>closes
<1>5. CASE \E p \in Pid : Accept(p)
  <2> PICK p \in Pid : Accept(p)
    BY <1>5
  <2>1. p \notin Busy /\ Busy' = Busy \cup {p}
    BY DEF Accept, Busy, TypeOK
  <2>2. Cardinality(Busy) < MaxProcs
    BY IdleMeansRoom DEF Accept
  <2>3. \E q \in Pid \ Busy : Busy' = Busy \cup {q}
    BY <2>1
  <2>4. backlog # <<>> /\ backlog' = Tail(backlog) /\ UNCHANGED pc
    BY DEF Accept
  \* The instance has a copy of FiniteSets of its own.
  <2>5. Svc!Cardinality(Busy) = Cardinality(Busy)
    BY DEF Svc!Cardinality, Cardinality
  <2>6. Svc!Start
    BY <2>2, <2>3, <2>4, <2>5 DEF Svc!Start
  <2> QED
    BY <2>6 DEF Svc!Next
<1>6. CASE \E p \in Pid : Finish(p) \/ Woken(p) \/ Killed(p)
  <2> PICK p \in Pid :
        Exit(p) /\ child[p] \in {"idle", "serving", "stuck"} /\ backlog' = backlog
    BY <1>6 DEF Finish, Woken, Killed
  <2>1. CASE child[p] = "idle"
    <3>1. Busy' = Busy
      BY <2>1, <1>busy DEF Exit, TypeOK
    <3> QED
      BY <3>1, <1>stutter DEF Exit
  <2>2. CASE child[p] \in {"serving", "stuck"}
    <3>1. p \in Busy /\ Busy' = Busy \ {p}
      BY <2>2 DEF Exit, Busy, TypeOK
    <3>2. Svc!Stop
      BY <3>1 DEF Exit, Svc!Stop
    <3> QED
      BY <3>2 DEF Svc!Next
  <2> QED
    BY <2>1, <2>2
<1>7. CASE \E c \in Conn : Connect(c)
  <2>1. Svc!Arrive
    BY <1>7, <1>busy DEF Connect, Svc!Arrive
  <2> QED
    BY <2>1 DEF Svc!Next
<1>8. CASE \E i \in 1..Len(backlog) : Abort(i)
  <2>1. Svc!Leave
    BY <1>8, <1>busy DEF Abort, Svc!Leave
  <2> QED
    BY <2>1 DEF Svc!Next
<1>12. CASE \E p \in Pid : AcceptFails(p)
  <2> PICK p \in Pid : AcceptFails(p)
    BY <1>12
  <2>1. Busy' = Busy /\ pc' = pc
    BY <1>busy DEF AcceptFails, Exit, TypeOK
  <2>2. backlog \in Seq(Conn) /\ 1 \in 1..Len(backlog) /\ backlog' = Tail(backlog)
    BY DEF AcceptFails, TypeOK
  <2>3. Tail(backlog) = SubSeq(backlog, 1, 1 - 1) \o SubSeq(backlog, 1 + 1, Len(backlog))
    BY <2>2
  <2>4. Svc!Leave
    BY <2>1, <2>2, <2>3 DEF Svc!Leave
  <2> QED
    BY <2>4 DEF Svc!Next
<1>9. CASE Reset
  <2>1. Svc!Drop
    BY <1>9, <1>busy DEF Reset, Listening, Svc!Drop
  <2> QED
    BY <2>1 DEF Svc!Next
<1>10. CASE \E p \in Pid : Hang(p)
  <2>1. Busy' = Busy
    BY <1>10, <1>busy DEF Hang, TypeOK
  <2> QED
    BY <1>10, <2>1, <1>stutter DEF Hang
<1>11. CASE UNCHANGED vars
  BY <1>11, <1>busy, <1>stutter DEF vars
<1> QED
  BY <1>1, <1>2, <1>3, <1>4, <1>5, <1>6, <1>7, <1>8, <1>9, <1>10, <1>11, <1>12
     DEF Next, ServerStep

\* The server, its workers and the listen queue implement Service: connections are
\* served in order, at most MAX_PROCS at a time, and none is turned out of the queue
\* while the server runs.
THEOREM Refinement == Spec => ImplementsService
<1>1. Init => Svc!Init
  BY DEF Init, Svc!Init, Busy
<1>2. IInv /\ [Next]_vars => [Svc!Next]_(Svc!vars)
  BY ServiceStep
<1> QED
  BY <1>1, <1>2, Invariance, PTL DEF Spec, ImplementsService, Svc!Spec
=============================================================================
