------------------------------- MODULE Daemon -------------------------------
(***************************************************************************)
(* jawasd -d (daemon.c, jawasd.c, with the start and the end of serve()): a*)
(* monitor forks the server, writes jawas.pid, and starts over in a new    *)
(* process when the server is gone.  All of them, and the workers, are in  *)
(* one process group: nothing calls setsid().                              *)
(*                                                                         *)
(* A pending signal is handled before the next step of its process.  The   *)
(* handlers survive fork(), so every monitor and every server but the first*)
(* start with those of the monitor before them.                            *)
(***************************************************************************)
EXTENDS Integers, FiniteSets

CONSTANTS Pid,       \* process ids
          Signals,   \* how many signals operators send, a bound of the model
          Crashes,   \* how many servers crash, a bound of the model
          Faults     \* "hup", "term" (what operators send), "fork" (it fails)

\* What fork() returns when it fails.
Failed == -1

ASSUME PidAssumption     == IsFiniteSet(Pid) /\ Cardinality(Pid) > 2 /\ {0, Failed} \cap Pid = {}
ASSUME BoundsAssumption  == Signals \in Nat /\ Crashes \in Nat
ASSUME FaultsAssumption  == Faults \subseteq {"hup", "term", "fork"}

VARIABLES pc,        \* where each process is
          handler,   \* its signal handlers: "default", "monitor" or "server"
          kid,       \* its variable child; 0 before and after a fork that returned 0, or Failed
          pending,   \* the signals it has not handled
          ear,       \* the server's bind() and listen() succeeded
          pidfile,   \* jawas.pid, 0 when empty or missing
          idle,      \* workers blocked in accept() hold the listening socket
          signals,   \* signals operators may still send
          crashes    \* servers that may still crash

bounds == <<signals, crashes>>
vars   == <<pc, handler, kid, pending, ear, pidfile, idle, bounds>>

Monitoring == {"truncate", "write", "install", "watch"}
Serving    == {"boot", "bound", "up", "stopping"}
Live       == {p \in Pid : pc[p] \notin {"free", "zombie"}}
Monitors   == {p \in Pid : pc[p] \in Monitoring}
Servers    == {p \in Pid : pc[p] \in Serving}

-----------------------------------------------------------------------------
\* main() called demon(1).
Init ==
  \E p \in Pid :
    /\ pc = [q \in Pid |-> IF q = p THEN "launch" ELSE "free"]
    /\ handler = [q \in Pid |-> "default"]
    /\ kid = [q \in Pid |-> 0]
    /\ pending = [q \in Pid |-> {}]
    /\ ear = [q \in Pid |-> FALSE]
    /\ pidfile = 0 /\ idle = FALSE
    /\ signals = Signals /\ crashes = Crashes

\* The states of the processes once p has exited: its monitor has still to reap a
\* server, init reaps everything else, the children of p included.
AfterExit(p) ==
  [q \in Pid |->
     CASE q = p -> IF \E m \in Monitors : kid[m] = p THEN "zombie" ELSE "free"
       [] p \in Monitors /\ kid[p] = q /\ pc[q] = "zombie" -> "free"
       [] OTHER -> pc[q]]

Exit(p) ==
  /\ pc' = AfterExit(p)
  /\ ear' = [ear EXCEPT ![p] = FALSE]

Runs(p, at) == pc[p] = at /\ pending[p] = {}
Goto(p, at) == pc' = [pc EXCEPT ![p] = at]

\* fork(): the child has the handlers of its parent and no pending signal.
Forked(p, q) ==
  /\ pc[q] = "free"
  /\ handler' = [handler EXCEPT ![q] = handler[p]]
  /\ pending' = [pending EXCEPT ![q] = {}]

-----------------------------------------------------------------------------
(* demon() *)

\* child = fork(); if (child != 0) exit(0): the child goes on as the new monitor.
Detach(p) ==
  /\ Runs(p, "launch")
  /\ \E q \in Pid :
     /\ Forked(p, q)
     /\ pc' = [pc EXCEPT ![p] = "free", ![q] = "middle"]
     /\ kid' = [kid EXCEPT ![p] = 0, ![q] = 0]
  /\ UNCHANGED <<ear, pidfile, idle, bounds>>

\* A fork() that fails is not 0 either: nothing takes its place.
DetachFails(p) ==
  /\ "fork" \in Faults /\ Runs(p, "launch")
  /\ Exit(p)
  /\ UNCHANGED <<handler, kid, pending, pidfile, idle, bounds>>

\* Mutant: only the first monitor writes jawas.pid.
ForkServerNoPidfile(p) ==
  /\ Runs(p, "middle")
  /\ \E q \in Pid :
     /\ Forked(p, q)
     /\ pc' = [pc EXCEPT ![p] = IF handler[p] = "default" THEN "truncate" ELSE "install",
                         ![q] = "boot"]
     /\ kid' = [kid EXCEPT ![p] = q, ![q] = 0]
  /\ UNCHANGED <<ear, pidfile, idle, bounds>>

\* The second fork(): the child returns to main() and serve().
ForkServer(p) ==
  /\ Runs(p, "middle")
  /\ \E q \in Pid :
     /\ Forked(p, q)
     /\ pc' = [pc EXCEPT ![p] = "truncate", ![q] = "boot"]
     /\ kid' = [kid EXCEPT ![p] = q, ![q] = 0]
  /\ UNCHANGED <<ear, pidfile, idle, bounds>>

\* A second fork() that fails is not 0 either: the process goes on as the monitor of
\* nothing.
ForkServerFails(p) ==
  /\ "fork" \in Faults /\ Runs(p, "middle")
  /\ kid' = [kid EXCEPT ![p] = Failed] /\ Goto(p, "truncate")
  /\ UNCHANGED <<handler, pending, ear, pidfile, idle, bounds>>

\* open() with O_TRUNC, then write().
TruncatePid(p) ==
  /\ Runs(p, "truncate")
  /\ pidfile' = 0 /\ Goto(p, "write")
  /\ UNCHANGED <<handler, kid, pending, ear, idle, bounds>>

WritePid(p) ==
  /\ Runs(p, "write")
  /\ pidfile' = p /\ Goto(p, "install")
  /\ UNCHANGED <<handler, kid, pending, ear, idle, bounds>>

Install(p) ==
  /\ Runs(p, "install")
  /\ handler' = [handler EXCEPT ![p] = "monitor"] /\ Goto(p, "watch")
  /\ UNCHANGED <<kid, pending, ear, pidfile, idle, bounds>>

\* Mutant: the loop ends on 0, a server that still runs, as well.
ReapEarly(p) ==
  /\ Runs(p, "watch") /\ kid[p] # Failed
  /\ pc' = [pc EXCEPT ![p] = "launch",
                      ![kid[p]] = IF pc[kid[p]] = "zombie" THEN "free" ELSE @]
  /\ UNCHANGED <<handler, kid, pending, ear, pidfile, idle, bounds>>

\* Mutant: the loop goes on until waitpid() returns a process.
ReapPositive(p) ==
  /\ Runs(p, "watch") /\ kid[p] # Failed
  /\ pc[kid[p]] = "zombie" /\ pc' = [pc EXCEPT ![p] = "launch", ![kid[p]] = "free"]
  /\ UNCHANGED <<handler, kid, pending, ear, pidfile, idle, bounds>>

\* waitpid() returns the server, or that there is no child to wait for: goto restart.
\* murder and done are set by kill_all() only, which does not return.
Reap(p) ==
  /\ Runs(p, "watch")
  /\ \/ kid[p] = Failed /\ Goto(p, "launch")
     \/ /\ kid[p] # Failed /\ pc[kid[p]] = "zombie"
        /\ pc' = [pc EXCEPT ![p] = "launch", ![kid[p]] = "free"]
  /\ UNCHANGED <<handler, kid, pending, ear, pidfile, idle, bounds>>

-----------------------------------------------------------------------------
(* serve() *)

PortTaken == idle \/ \E q \in Pid : ear[q]

\* open_socket(): a failed bind() is logged and the server goes on without a socket.
Bind(p) ==
  /\ Runs(p, "boot")
  /\ ear' = [ear EXCEPT ![p] = ~PortTaken]
  /\ Goto(p, "bound")
  /\ UNCHANGED <<handler, kid, pending, pidfile, idle, bounds>>

\* general_signal_handlers(), load_files(), and into the loop.
ServerHandlers(p) ==
  /\ Runs(p, "bound")
  /\ handler' = [handler EXCEPT ![p] = "server"]
  /\ Goto(p, "up")
  /\ UNCHANGED <<kid, pending, ear, pidfile, idle, bounds>>

\* kill(0,s) from p: every other process of the group has it pending, and SIGTERM
\* ends the workers.
Group(p, s) ==
  /\ pending' = [q \in Pid |-> IF q # p /\ q \in Live THEN pending[q] \cup {s} ELSE pending[q]]
  /\ idle' = (idle /\ s # "TERM")

\* The end of serve() after SIGHUP: kill(0,SIGTERM) ends the server too.
EndServe(p) ==
  /\ Runs(p, "stopping")
  /\ Group(p, "TERM") /\ Exit(p)
  /\ UNCHANGED <<handler, kid, pidfile, bounds>>

\* Some worker is forked that nobody connects to; the last of them gets a connection.
ForkIdle(p) ==
  /\ Runs(p, "up") /\ ear[p] /\ ~idle
  /\ idle' = TRUE
  /\ UNCHANGED <<pc, handler, kid, pending, ear, pidfile, bounds>>

TakeIdle ==
  /\ idle /\ idle' = FALSE
  /\ UNCHANGED <<pc, handler, kid, pending, ear, pidfile, bounds>>

\* A fault, or exit(JAWAS_EXIT_FORK).
Crash(p) ==
  /\ crashes > 0 /\ p \in Servers
  /\ Exit(p) /\ crashes' = crashes - 1
  /\ UNCHANGED <<handler, kid, pending, pidfile, idle, signals>>

-----------------------------------------------------------------------------
(* Signals. *)

\* jawasd -r and jawas stop: a signal to the process jawas.pid names, if any.
Operate(s) ==
  /\ signals > 0 /\ pidfile \in Live
  /\ pending' = [pending EXCEPT ![pidfile] = @ \cup {s}]
  /\ signals' = signals - 1
  /\ UNCHANGED <<pc, handler, kid, ear, pidfile, idle, crashes>>

Handled(p, s) == pending' = [pending EXCEPT ![p] = @ \ {s}]

\* No handler yet: the default action of both signals.
DefaultAction(p) ==
  /\ p \in Live /\ pending[p] # {} /\ handler[p] = "default"
  /\ Exit(p) /\ pending' = [pending EXCEPT ![p] = {}]
  /\ UNCHANGED <<handler, kid, pidfile, idle, bounds>>

\* Mutant: kill_all() signals the server only.
KillAllChild(p) ==
  /\ p \in Live /\ "TERM" \in pending[p] /\ handler[p] = "monitor"
  /\ pending' = [q \in Pid |-> IF q = kid[p] /\ q \in Live THEN pending[q] \cup {"TERM"}
                              ELSE pending[q]]
  /\ Exit(p)
  /\ UNCHANGED <<handler, kid, pidfile, idle, bounds>>

\* kill_all(), in a monitor or in a server that inherited it.
KillAll(p) ==
  /\ p \in Live /\ "TERM" \in pending[p] /\ handler[p] = "monitor"
  /\ Group(p, "TERM") /\ Exit(p)
  /\ UNCHANGED <<handler, kid, pidfile, bounds>>

\* restart_child(): kill(child,SIGHUP), and child is 0 in every process that is not
\* a monitor -- then the whole group is signalled, the sender included.  With Failed it
\* is every process the sender may signal, and not the sender.
RestartChild(p) ==
  /\ p \in Live /\ "HUP" \in pending[p] /\ handler[p] = "monitor"
  /\ \/ /\ kid[p] = 0
        /\ pending' = [q \in Pid |-> IF q \in Live THEN pending[q] \cup {"HUP"} ELSE pending[q]]
     \/ /\ kid[p] # 0
        /\ pending' = [q \in Pid |->
             IF q # p /\ q \in Live /\ kid[p] \in {q, Failed} THEN pending[q] \cup {"HUP"}
             ELSE IF q = p THEN pending[q] \ {"HUP"} ELSE pending[q]]
  /\ UNCHANGED <<pc, handler, kid, ear, pidfile, idle, bounds>>

\* gen_signal_handler() and restart_signal_handler() of signals.c.
ServerTerm(p) ==
  /\ p \in Live /\ "TERM" \in pending[p] /\ handler[p] = "server"
  /\ Exit(p) /\ Handled(p, "TERM")
  /\ UNCHANGED <<handler, kid, pidfile, idle, bounds>>

ServerHup(p) ==
  /\ p \in Live /\ "HUP" \in pending[p] /\ handler[p] = "server"
  /\ Goto(p, "stopping") /\ Handled(p, "HUP")
  /\ UNCHANGED <<handler, kid, ear, pidfile, idle, bounds>>

-----------------------------------------------------------------------------
Step(p) ==
  \/ Detach(p) \/ ForkServer(p) \/ TruncatePid(p) \/ WritePid(p) \/ Install(p)
  \/ Reap(p) \/ Bind(p) \/ ServerHandlers(p) \/ EndServe(p)
  \/ DefaultAction(p) \/ KillAll(p) \/ RestartChild(p) \/ ServerTerm(p) \/ ServerHup(p)

Next ==
  \/ \E p \in Pid : Step(p) \/ DetachFails(p) \/ ForkServerFails(p) \/ ForkIdle(p) \/ Crash(p)
  \/ TakeIdle
  \/ "hup" \in Faults /\ Operate("HUP")
  \/ "term" \in Faults /\ Operate("TERM")

Spec == Init /\ [][Next]_vars

\* The kernel schedules every process and delivers its signals; a second signal does
\* not keep SIGTERM from its handler.
Fairness == \A p \in Pid : WF_vars(Step(p)) /\ WF_vars(KillAll(p))

FairSpec == Spec /\ Fairness

-----------------------------------------------------------------------------
(* Properties. *)

TypeOK ==
  /\ pc \in [Pid -> {"free", "launch", "middle", "zombie"} \cup Monitoring \cup Serving]
  /\ handler \in [Pid -> {"default", "monitor", "server"}]
  /\ kid \in [Pid -> Pid \cup {0, Failed}]
  /\ pending \in [Pid -> SUBSET {"HUP", "TERM"}]
  /\ ear \in [Pid -> BOOLEAN] /\ idle \in BOOLEAN
  /\ pidfile \in Pid \cup {0} /\ signals \in 0..Signals /\ crashes \in 0..Crashes

\* Whatever dies, there is never a second monitor nor a second server: the monitor
\* starts over only when its server is gone, and exits as its successor appears.
OneOfEach ==
  /\ Cardinality({p \in Pid : pc[p] \in Monitoring \cup {"launch", "middle"}}) <= 1
  /\ Cardinality(Servers) <= 1

\* Once a monitor watches, jawas.pid names it, in every generation.
PidfileNamesMonitor == \A p \in Pid : pc[p] = "watch" => pidfile = p

ForkingFails == \E p \in Pid : pc[p] = "truncate" /\ kid[p] = Failed

\* While nobody signals, a server that is gone is replaced by one that runs, or the first
\* fork() failed and nothing is left, or the second one fails again and again: a monitor
\* without a server starts over each time, and none waits for nothing (daemon.c:35-56).
CrashRecovered ==
  \/ []<>ForkingFails
  \/ Servers = {} /\ signals = Signals
       ~> (\E p \in Pid : pc[p] = "up") \/ Live = {} \/ signals < Signals

\* The server that replaces a crashed one serves the port: the service is kept alive,
\* as README has it, and not only a process.
ServesAgain == Servers = {} ~> \E p \in Pid : pc[p] = "up" /\ ear[p]

\* SIGTERM to a monitor that has its handlers leaves no process of the group
\* (daemon.c:10-16), wherever the server and its successors are.
StopStops ==
  (\E p \in Monitors : handler[p] = "monitor" /\ "TERM" \in pending[p])
    ~> Live = {} /\ ~idle

\* README: "Jawas always attempts to keep itself alive if you run it with the -d
\* detach flag": something of it is alive to start the server again.
KeepsAlive == Live # {}
=============================================================================
