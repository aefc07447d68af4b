---------------------------- MODULE DaemonProofs ----------------------------
(***************************************************************************)
(* Proofs about Daemon: one monitor and one server at a time, and a pid    *)
(* file that names the monitor, for every number of processes, signals and *)
(* crashes.                                                                *)
(***************************************************************************)
EXTENDS Daemon, FiniteSetTheorems, TLAPS

\* The process that is, or is about to become, the monitor.
Leading == Monitoring \cup {"launch", "middle"}

\* A server that runs, or that nobody has reaped yet.
Started == Serving \cup {"zombie"}

OneLeads  == \A p, q \in Pid : pc[p] \in Leading /\ pc[q] \in Leading => p = q
OneServes == \A p, q \in Pid : pc[p] \in Serving /\ pc[q] \in Serving => p = q

\* The next server is forked when the last one is gone, and its monitor knows it; the
\* monitor whose fork failed has none.
KidIsServer ==
  \A p \in Pid :
    /\ pc[p] \in {"launch", "middle"} => \A q \in Pid : pc[q] \notin Started
    /\ pc[p] \in Monitoring =>
         \/ kid[p] = Failed /\ \A q \in Pid : pc[q] \notin Started
         \/ /\ kid[p] \in Pid /\ pc[kid[p]] \in Started
            /\ \A q \in Pid : pc[q] \in Started => q = kid[p]

\* What a monitor inherits are handlers of monitors.
NoServerHandler == \A p \in Pid : pc[p] \in Leading => handler[p] # "server"

PidfileWritten == \A p \in Pid : pc[p] \in {"install", "watch"} => pidfile = p

\* All that is about the life of processes.
Lives == OneLeads /\ OneServes /\ KidIsServer /\ NoServerHandler /\ PidfileWritten

IInv == TypeOK /\ Lives

-----------------------------------------------------------------------------
(* Steps that are alike. *)

States == {"free", "launch", "middle", "zombie"} \cup Monitoring \cup Serving

\* What an exit leaves of every process.
LEMMA ExitStates ==
  ASSUME IInv, NEW p \in Pid, p \in Live
  PROVE  /\ AfterExit(p) \in [Pid -> States]
         /\ AfterExit(p)[p] = IF \E m \in Monitors : kid[m] = p THEN "zombie" ELSE "free"
         /\ \A q \in Pid \ {p} :
              AfterExit(p)[q] = IF p \in Monitors /\ kid[p] = q /\ pc[q] = "zombie"
                                THEN "free" ELSE pc[q]
<1> DEFINE Reaped(q) == p \in Monitors /\ kid[p] = q /\ pc[q] = "zombie"
           Own == IF \E m \in Monitors : kid[m] = p THEN "zombie" ELSE "free"
<1>1. pc \in [Pid -> States] /\ pc[p] # "zombie" /\ Own \in States
  BY DEF IInv, TypeOK, Live, States
<1>2. AfterExit(p) = [q \in Pid |-> CASE q = p -> Own [] Reaped(q) -> "free" [] OTHER -> pc[q]]
  BY DEF AfterExit
<1>3. ~Reaped(p)
  BY <1>1
<1> HIDE DEF Own, Reaped
<1>4. AfterExit(p)[p] = Own
  BY <1>2, <1>3
<1>5. \A q \in Pid \ {p} : AfterExit(p)[q] = IF Reaped(q) THEN "free" ELSE pc[q]
  BY <1>2
<1>6. \A q \in Pid : AfterExit(p)[q] \in States
  BY <1>1, <1>4, <1>5 DEF States
<1>7. AfterExit(p) \in [Pid -> States]
  BY <1>2, <1>6
<1> QED
  BY <1>4, <1>5, <1>7 DEF Own, Reaped

LEMMA ExitKeeps ==
  ASSUME IInv, NEW p \in Pid, p \in Live, Exit(p), UNCHANGED <<handler, kid, pidfile>>
  PROVE  Lives'
<1> USE DEF Monitoring, Serving, Leading, Started
<1>1. /\ pc \in [Pid -> States] /\ pc' \in [Pid -> States]
      /\ pc[p] \notin {"free", "zombie"}
      /\ handler' = handler /\ kid' = kid /\ pidfile' = pidfile
      /\ pc'[p] = IF \E m \in Monitors : kid[m] = p THEN "zombie" ELSE "free"
      /\ \A q \in Pid \ {p} :
           pc'[q] = IF p \in Monitors /\ kid[p] = q /\ pc[q] = "zombie" THEN "free" ELSE pc[q]
  BY ExitStates DEF IInv, TypeOK, Live, Exit, States
<1>2. \A q \in Pid : pc'[q] \in Leading \cup Serving => q # p /\ pc'[q] = pc[q]
  BY <1>1
<1>3. \A q \in Pid : pc'[q] \in Started => pc[q] \in Started
  <2> SUFFICES ASSUME NEW q \in Pid, pc'[q] \in Started PROVE pc[q] \in Started
    OBVIOUS
  <2>1. CASE q # p
    BY <1>1, <2>1
  <2>2. CASE q = p
    BY <1>1, <2>2, PidAssumption DEF IInv, Lives, KidIsServer, Monitors
  <2> QED
    BY <2>1, <2>2
<1>4. (OneLeads /\ OneServes /\ NoServerHandler /\ PidfileWritten)'
  BY <1>1, <1>2 DEF IInv, Lives, OneLeads, OneServes, NoServerHandler, PidfileWritten
<1>5. KidIsServer'
  <2> SUFFICES ASSUME NEW m \in Pid, pc[m] \in Leading, pc'[m] = pc[m], m # p
               PROVE  /\ pc[m] \in {"launch", "middle"} => \A q \in Pid : pc'[q] \notin Started
                      /\ pc[m] \in Monitoring =>
                           \/ kid[m] = Failed /\ \A q \in Pid : pc'[q] \notin Started
                           \/ /\ kid[m] \in Pid /\ pc'[kid[m]] \in Started
                              /\ \A q \in Pid : pc'[q] \in Started => q = kid[m]
    BY <1>1, <1>2 DEF KidIsServer
  <2>1. CASE pc[m] \in {"launch", "middle"}
    BY <1>3, <2>1 DEF IInv, Lives, KidIsServer
  <2>2. CASE pc[m] \in Monitoring /\ \A q \in Pid : pc[q] \notin Started
    BY <1>3, <2>2 DEF IInv, Lives, KidIsServer
  <2>3. CASE pc[m] \in Monitoring /\ ~\A q \in Pid : pc[q] \notin Started
    <3>1. /\ kid[m] \in Pid /\ pc[kid[m]] \in Started
          /\ \A q \in Pid : pc[q] \in Started => q = kid[m]
      BY <2>3 DEF IInv, Lives, KidIsServer
    <3>2. m \in Monitors /\ p \notin Monitors
      BY <2>3 DEF Monitors, IInv, Lives, OneLeads
    <3>3. pc'[kid[m]] \in Started
      BY <1>1, <3>1, <3>2
    <3> QED
      BY <1>3, <2>3, <3>1, <3>3
  <2> QED
    BY <2>1, <2>2, <2>3
<1> QED
  BY <1>4, <1>5 DEF Lives

\* A monitor goes on to its next state.
LEMMA MonitorKeeps ==
  ASSUME IInv, NEW p \in Pid, NEW at \in Monitoring, pc[p] \in Monitoring, Goto(p, at),
         handler' = handler \/ handler' = [handler EXCEPT ![p] = "monitor"],
         UNCHANGED kid
  PROVE  (OneLeads /\ OneServes /\ KidIsServer /\ NoServerHandler)'
  BY DEF IInv, Lives, TypeOK, Goto, OneLeads, OneServes, KidIsServer, NoServerHandler,
         Monitoring, Serving, Leading, Started

\* A server does.
LEMMA ServerKeeps ==
  ASSUME IInv, NEW p \in Pid, NEW at \in Serving, pc[p] \in Serving, Goto(p, at),
         handler' = handler \/ handler' = [handler EXCEPT ![p] = "server"],
         UNCHANGED <<kid, pidfile>>
  PROVE  Lives'
  BY DEF IInv, Lives, TypeOK, Goto, OneLeads, OneServes, KidIsServer, NoServerHandler,
         PidfileWritten, Monitoring, Serving, Leading, Started

\* Nobody does.
LEMMA OthersKeep ==
  ASSUME IInv, UNCHANGED <<pc, handler, kid, pidfile>>
  PROVE  Lives'
<1>1. pc' = pc /\ handler' = handler /\ kid' = kid /\ pidfile' = pidfile
  OBVIOUS
<1>2. (OneLeads /\ OneServes)' /\ NoServerHandler' /\ PidfileWritten'
  BY <1>1 DEF IInv, Lives, OneLeads, OneServes, NoServerHandler, PidfileWritten
<1>3. KidIsServer'
  BY <1>1 DEF IInv, Lives, KidIsServer
<1> QED
  BY <1>2, <1>3 DEF Lives

-----------------------------------------------------------------------------
(* The invariant. *)

LEMMA InitIInv == ASSUME Init PROVE IInv
<1> USE BoundsAssumption
<1>1. PICK p \in Pid :
        /\ pc = [q \in Pid |-> IF q = p THEN "launch" ELSE "free"]
        /\ handler = [q \in Pid |-> "default"]
        /\ kid = [q \in Pid |-> 0]
        /\ pending = [q \in Pid |-> {}]
        /\ ear = [q \in Pid |-> FALSE]
        /\ pidfile = 0 /\ idle = FALSE /\ signals = Signals /\ crashes = Crashes
  BY DEF Init, bounds
<1>2. TypeOK
  <2>1. signals \in 0..Signals /\ crashes \in 0..Crashes
    BY <1>1
  <2>2. /\ pc \in [Pid ->
                       {"free", "launch", "middle", "zombie"} \cup Monitoring \cup Serving]
        /\ handler \in [Pid -> {"default", "monitor", "server"}]
        /\ kid \in [Pid -> Pid \cup {0, Failed}] /\ pending \in [Pid -> SUBSET {"HUP", "TERM"}]
        /\ ear \in [Pid -> BOOLEAN]
    BY <1>1
  <2> QED
    BY <1>1, <2>1, <2>2 DEF TypeOK
<1>3. Lives
  BY <1>1 DEF Lives, OneLeads, OneServes, KidIsServer, NoServerHandler, PidfileWritten,
              Leading, Started, Monitoring, Serving
<1> QED
  BY <1>2, <1>3 DEF IInv

\* What processes have pending is a set of the two signals, also of a whole group.
LEMMA GroupType ==
  ASSUME IInv, NEW p \in Pid, NEW s \in {"HUP", "TERM"}, Group(p, s)
  PROVE  pending' \in [Pid -> SUBSET {"HUP", "TERM"}] /\ idle' \in BOOLEAN
  BY DEF IInv, TypeOK, Group

LEMMA ExitType ==
  ASSUME IInv, NEW p \in Pid, p \in Live, Exit(p)
  PROVE  pc' \in [Pid -> States] /\ ear' \in [Pid -> BOOLEAN]
  BY ExitStates DEF IInv, TypeOK, Exit

LEMMA TypeStep == ASSUME IInv, [Next]_vars PROVE TypeOK'
<1> USE PidAssumption DEF bounds
<1>0. /\ pc \in [Pid -> States]
      /\ handler \in [Pid -> {"default", "monitor", "server"}]
      /\ kid \in [Pid -> Pid \cup {0, Failed}]
      /\ pending \in [Pid -> SUBSET {"HUP", "TERM"}]
      /\ ear \in [Pid -> BOOLEAN] /\ idle \in BOOLEAN
      /\ pidfile \in Pid \cup {0} /\ signals \in 0..Signals /\ crashes \in 0..Crashes
  BY DEF IInv, TypeOK, States
<1>1. ASSUME NEW p \in Pid, Detach(p) PROVE TypeOK'
  BY <1>0, <1>1 DEF Detach, Runs, Forked, TypeOK, States
<1>2. ASSUME NEW p \in Pid, DetachFails(p) PROVE TypeOK'
  <2>1. p \in Live /\ Exit(p)
    BY <1>2 DEF DetachFails, Runs, Live
  <2>2. pc' \in [Pid -> States] /\ ear' \in [Pid -> BOOLEAN]
    BY <2>1, ExitType
  <2> QED
    BY <1>0, <1>2, <2>2 DEF DetachFails, TypeOK, States
<1>3. ASSUME NEW p \in Pid, ForkServer(p) PROVE TypeOK'
  BY <1>0, <1>3 DEF ForkServer, Runs, Forked, Monitoring, Serving, TypeOK, States
<1>22. ASSUME NEW p \in Pid, ForkServerFails(p) PROVE TypeOK'
  BY <1>0, <1>22 DEF ForkServerFails, Runs, Goto, Monitoring, TypeOK, States
<1>4. ASSUME NEW p \in Pid, TruncatePid(p) PROVE TypeOK'
  BY <1>0, <1>4 DEF TruncatePid, Runs, Goto, Monitoring, TypeOK, States
<1>5. ASSUME NEW p \in Pid, WritePid(p) PROVE TypeOK'
  BY <1>0, <1>5 DEF WritePid, Runs, Goto, Monitoring, TypeOK, States
<1>6. ASSUME NEW p \in Pid, Install(p) PROVE TypeOK'
  BY <1>0, <1>6 DEF Install, Runs, Goto, Monitoring, TypeOK, States
<1>7. ASSUME NEW p \in Pid, Reap(p) PROVE TypeOK'
  BY <1>0, <1>7 DEF Reap, Runs, Goto, TypeOK, States
<1>8. ASSUME NEW p \in Pid, Bind(p) PROVE TypeOK'
  BY <1>0, <1>8 DEF Bind, Runs, Goto, PortTaken, Serving, TypeOK, States
<1>9. ASSUME NEW p \in Pid, ServerHandlers(p) PROVE TypeOK'
  BY <1>0, <1>9 DEF ServerHandlers, Runs, Goto, Serving, TypeOK, States
<1>10. ASSUME NEW p \in Pid, EndServe(p) PROVE TypeOK'
  <2>1. p \in Live /\ Exit(p)
    BY <1>10 DEF EndServe, Runs, Live, Serving
  <2>2. pc' \in [Pid -> States] /\ ear' \in [Pid -> BOOLEAN]
    BY <2>1, ExitType
  <2>3. pending' \in [Pid -> SUBSET {"HUP", "TERM"}] /\ idle' \in BOOLEAN
    BY <1>10, GroupType DEF EndServe
  <2> QED
    BY <1>0, <1>10, <2>2, <2>3 DEF EndServe, TypeOK, States
<1>11. ASSUME NEW p \in Pid, ForkIdle(p) PROVE TypeOK'
  BY <1>0, <1>11 DEF ForkIdle, Runs, TypeOK, States
<1>12. ASSUME NEW p \in Pid, Crash(p) PROVE TypeOK'
  <2>1. p \in Live /\ Exit(p)
    BY <1>12 DEF Crash, Servers, Serving, Live
  <2>2. pc' \in [Pid -> States] /\ ear' \in [Pid -> BOOLEAN]
    BY <2>1, ExitType
  <2> QED
    BY <1>0, <1>12, <2>2, BoundsAssumption DEF Crash, TypeOK, States
<1>13. ASSUME NEW p \in Pid, DefaultAction(p) PROVE TypeOK'
  <2>1. p \in Live /\ Exit(p)
    BY <1>13 DEF DefaultAction, Live
  <2>2. pc' \in [Pid -> States] /\ ear' \in [Pid -> BOOLEAN]
    BY <2>1, ExitType
  <2> QED
    BY <1>0, <1>13, <2>2 DEF DefaultAction, TypeOK, States
<1>14. ASSUME NEW p \in Pid, KillAll(p) PROVE TypeOK'
  <2>1. p \in Live /\ Exit(p)
    BY <1>14 DEF KillAll, Live
  <2>2. pc' \in [Pid -> States] /\ ear' \in [Pid -> BOOLEAN]
    BY <2>1, ExitType
  <2>3. pending' \in [Pid -> SUBSET {"HUP", "TERM"}] /\ idle' \in BOOLEAN
    BY <1>14, GroupType DEF KillAll
  <2> QED
    BY <1>0, <1>14, <2>2, <2>3 DEF KillAll, TypeOK, States
<1>15. ASSUME NEW p \in Pid, RestartChild(p) PROVE TypeOK'
  BY <1>0, <1>15 DEF RestartChild, TypeOK, States
<1>16. ASSUME NEW p \in Pid, ServerTerm(p) PROVE TypeOK'
  <2>1. p \in Live /\ Exit(p)
    BY <1>16 DEF ServerTerm, Live
  <2>2. pc' \in [Pid -> States] /\ ear' \in [Pid -> BOOLEAN]
    BY <2>1, ExitType
  <2> QED
    BY <1>0, <1>16, <2>2 DEF ServerTerm, Handled, TypeOK, States
<1>17. ASSUME NEW p \in Pid, ServerHup(p) PROVE TypeOK'
  BY <1>0, <1>17 DEF ServerHup, Handled, Goto, Serving, TypeOK, States
<1>18. ASSUME TakeIdle PROVE TypeOK'
  BY <1>0, <1>18 DEF TakeIdle, TypeOK, States
<1>19. ASSUME Operate("HUP") PROVE TypeOK'
  <2>1. pidfile \in Pid /\ pending' = [pending EXCEPT ![pidfile] = @ \cup {"HUP"}]
    BY <1>19 DEF Operate, Live
  <2>2. pending' \in [Pid -> SUBSET {"HUP", "TERM"}]
    BY <1>0, <2>1
  <2>3. signals' \in 0..Signals
    BY <1>0, <1>19, BoundsAssumption DEF Operate
  <2> QED
    BY <1>0, <1>19, <2>2, <2>3 DEF Operate, TypeOK, States
<1>20. ASSUME Operate("TERM") PROVE TypeOK'
  <2>1. pidfile \in Pid /\ pending' = [pending EXCEPT ![pidfile] = @ \cup {"TERM"}]
    BY <1>20 DEF Operate, Live
  <2>2. pending' \in [Pid -> SUBSET {"HUP", "TERM"}]
    BY <1>0, <2>1
  <2>3. signals' \in 0..Signals
    BY <1>0, <1>20, BoundsAssumption DEF Operate
  <2> QED
    BY <1>0, <1>20, <2>2, <2>3 DEF Operate, TypeOK, States
<1>21. ASSUME UNCHANGED vars PROVE TypeOK'
  BY <1>0, <1>21 DEF vars, TypeOK, States
<1> QED
  BY <1>1, <1>2, <1>3, <1>4, <1>5, <1>6, <1>7, <1>8, <1>9, <1>10, <1>11, <1>12,
    <1>13, <1>14, <1>15, <1>16, <1>17, <1>18, <1>19, <1>20, <1>21, <1>22 DEF Next, Step

\* One monitor, one server, and the pid file, after every step.
LEMMA LivesStep == ASSUME IInv, [Next]_vars PROVE Lives'
<1> USE DEF Monitoring, Serving
<1>0. /\ pc \in [Pid -> States] /\ kid \in [Pid -> Pid \cup {0, Failed}]
      /\ handler \in [Pid -> {"default", "monitor", "server"}] /\ {0, Failed} \cap Pid = {}
  BY PidAssumption DEF IInv, TypeOK, States
<1>1. ASSUME NEW p \in Pid, Detach(p) PROVE Lives'
  <2>1. PICK q \in Pid :
          /\ pc[q] = "free" /\ pc[p] = "launch"
          /\ handler' = [handler EXCEPT ![q] = handler[p]]
          /\ pc' = [pc EXCEPT ![p] = "free", ![q] = "middle"]
          /\ kid' = [kid EXCEPT ![p] = 0, ![q] = 0]
          /\ pidfile' = pidfile
    BY <1>1 DEF Detach, Forked, Runs
  <2> QED
    BY <1>0, <2>1 DEF IInv, Lives, OneLeads, OneServes, KidIsServer, NoServerHandler,
      PidfileWritten, Leading, Started, States
<1>2. ASSUME NEW p \in Pid, ForkServer(p) PROVE Lives'
  <2>1. PICK q \in Pid :
          /\ pc[q] = "free" /\ pc[p] = "middle"
          /\ handler' = [handler EXCEPT ![q] = handler[p]]
          /\ pc' = [pc EXCEPT ![p] = "truncate", ![q] = "boot"]
          /\ kid' = [kid EXCEPT ![p] = q, ![q] = 0]
          /\ pidfile' = pidfile
    BY <1>2 DEF ForkServer, Forked, Runs
  <2>2. OneLeads' /\ OneServes'
    BY <1>0, <2>1 DEF IInv, Lives, OneLeads, OneServes, KidIsServer, Leading, Started, States
  <2>3. KidIsServer'
    BY <1>0, <2>1 DEF IInv, Lives, OneLeads, KidIsServer, Leading, Started, States
  <2>4. NoServerHandler' /\ PidfileWritten'
    BY <1>0, <2>1 DEF IInv, Lives, OneLeads, NoServerHandler, PidfileWritten, Leading, States
  <2> QED BY <2>2, <2>3, <2>4 DEF Lives
<1>3. ASSUME NEW p \in Pid, TruncatePid(p) \/ WritePid(p) \/ Install(p) PROVE Lives'
  <2>1. (OneLeads /\ OneServes /\ KidIsServer /\ NoServerHandler)'
    BY <1>3, MonitorKeeps DEF TruncatePid, WritePid, Install, Runs
  <2>2. PidfileWritten'
    BY <1>0, <1>3 DEF TruncatePid, WritePid, Install, Runs, Goto, IInv, Lives,
      OneLeads, PidfileWritten, Leading, States
  <2> QED
    BY <2>1, <2>2 DEF Lives
<1>4. ASSUME NEW p \in Pid, Reap(p) PROVE Lives'
  <2>1. /\ pc[p] = "watch" /\ handler' = handler /\ kid' = kid /\ pidfile' = pidfile
    BY <1>4 DEF Reap, Runs
  <2>2. CASE kid[p] = Failed
    <3>1. pc' = [pc EXCEPT ![p] = "launch"] /\ \A q \in Pid : pc[q] \notin Started
      BY <1>4, <2>1, <2>2, PidAssumption DEF Reap, Goto, IInv, Lives, KidIsServer
    <3> QED
      BY <1>0, <2>1, <3>1 DEF IInv, Lives, OneLeads, OneServes, KidIsServer, NoServerHandler,
        PidfileWritten, Leading, Started, States
  <2>3. CASE kid[p] # Failed
    <3>1. /\ kid[p] \in Pid /\ pc[kid[p]] = "zombie"
          /\ pc' = [pc EXCEPT ![p] = "launch", ![kid[p]] = "free"]
      BY <1>4, <2>1, <2>3 DEF Reap, IInv, Lives, KidIsServer
    <3> QED
      BY <1>0, <2>1, <3>1 DEF IInv, Lives, OneLeads, OneServes, KidIsServer, NoServerHandler,
        PidfileWritten, Leading, Started, States
  <2> QED
    BY <2>2, <2>3
<1>10. ASSUME NEW p \in Pid, ForkServerFails(p) PROVE Lives'
  <2>1. /\ pc[p] = "middle" /\ pc' = [pc EXCEPT ![p] = "truncate"]
        /\ kid' = [kid EXCEPT ![p] = Failed] /\ handler' = handler /\ pidfile' = pidfile
    BY <1>10 DEF ForkServerFails, Runs, Goto
  <2> QED
    BY <1>0, <2>1 DEF IInv, Lives, OneLeads, OneServes, KidIsServer, NoServerHandler,
      PidfileWritten, Leading, Started, States
<1>5. ASSUME NEW p \in Pid, Bind(p) \/ ServerHandlers(p) PROVE Lives'
  BY <1>5, ServerKeeps DEF Bind, ServerHandlers, Runs
<1>6. ASSUME NEW p \in Pid, ServerHup(p) PROVE Lives'
  <2>1. pc[p] \in Serving
    BY <1>0, <1>6 DEF ServerHup, Live, IInv, Lives, NoServerHandler, Leading, States
  <2> QED
    BY <1>6, <2>1, ServerKeeps DEF ServerHup
<1>7. ASSUME NEW p \in Pid,
             DetachFails(p) \/ EndServe(p) \/ Crash(p) \/ DefaultAction(p) \/ KillAll(p) \/ ServerTerm(p)
      PROVE Lives'
  <2>1. p \in Live /\ Exit(p) /\ UNCHANGED <<handler, kid, pidfile>>
    BY <1>7 DEF DetachFails, EndServe, Crash, DefaultAction, KillAll, ServerTerm,
      Runs, Servers, Live
  <2> QED
    BY <2>1, ExitKeeps
<1>8. ASSUME NEW p \in Pid, ForkIdle(p) \/ RestartChild(p) PROVE Lives'
  BY <1>8, OthersKeep DEF ForkIdle, RestartChild
<1>9. ASSUME TakeIdle \/ Operate("HUP") \/ Operate("TERM") \/ UNCHANGED vars PROVE Lives'
  BY <1>9, OthersKeep DEF TakeIdle, Operate, vars
<1> QED
  BY <1>1, <1>2, <1>3, <1>4, <1>5, <1>6, <1>7, <1>8, <1>9, <1>10 DEF Next, Step

LEMMA Invariance == Spec => []IInv
<1>1. Init => IInv
  BY InitIInv
<1>2. IInv /\ [Next]_vars => IInv'
  BY TypeStep, LivesStep DEF IInv
<1> QED
  BY <1>1, <1>2, PTL DEF Spec

\* Where all members are the same there is one at most.
LEMMA AtMostOne ==
  ASSUME NEW S \in SUBSET Pid, \A p, q \in S : p = q
  PROVE  Cardinality(S) <= 1
<1>1. CASE S = {}
  BY <1>1, FS_EmptySet
<1>2. CASE S # {}
  <2>1. PICK p \in S : TRUE
    BY <1>2
  <2>2. S = {p}
    BY <2>1
  <2> QED
    BY <2>2, FS_Singleton
<1> QED
  BY <1>1, <1>2

-----------------------------------------------------------------------------
(* The theorems. *)

\* Every variable keeps its type.
THEOREM TypeCorrect == Spec => []TypeOK
<1>1. IInv => TypeOK
  BY DEF IInv
<1> QED
  BY <1>1, Invariance, PTL

\* Crashes, failing forks and signals in any order leave one monitor and one server at
\* most: the handlers and the variable child that fork() hands on never make a second.
THEOREM OneOfEachEver == Spec => []OneOfEach
<1>1. IInv => OneOfEach
  <2> SUFFICES ASSUME IInv PROVE OneOfEach
    OBVIOUS
  <2>1. Cardinality({p \in Pid : pc[p] \in Monitoring \cup {"launch", "middle"}}) <= 1
    BY AtMostOne DEF IInv, Lives, OneLeads, Leading
  <2>2. Cardinality(Servers) <= 1
    BY AtMostOne DEF IInv, Lives, OneServes, Servers
  <2> QED
    BY <2>1, <2>2 DEF OneOfEach
<1> QED
  BY <1>1, Invariance, PTL

\* jawas.pid names the monitor that watches, in every generation.
THEOREM PidfileIsRight == Spec => []PidfileNamesMonitor
<1>1. IInv => PidfileNamesMonitor
  BY DEF IInv, Lives, PidfileWritten, PidfileNamesMonitor
<1> QED
  BY <1>1, Invariance, PTL
=============================================================================
