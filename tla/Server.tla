------------------------------- MODULE Server -------------------------------
(***************************************************************************)
(* The server process of Jawas (server.c, events.c, bsd.c, signals.c): one *)
(* process polls a kqueue and forks a worker for every readiness report of *)
(* the listening socket.  The report is level-triggered and the new worker *)
(* is the one that calls accept(), so the server may fork several workers  *)
(* for one connection; the extra ones block in accept() and act as an idle *)
(* pool.  server.procs is the only limit on their number.                  *)
(*                                                                         *)
(* Signals arrive between any two steps of the server.  Only the kqueue    *)
(* build is modelled: the sources of the other one are not in the tree.    *)
(***************************************************************************)
EXTENDS Integers, Sequences, FiniteSets

CONSTANTS Pid,        \* process ids the kernel hands out
          Conn,       \* names of waiting connections; that of an accepted one is free again
          File,       \* cached files under an EVFILT_VNODE monitor
          MaxProcs,   \* MAX_PROCS
          Backlog,    \* the backlog given to listen()
          Faults      \* what may happen: "hup", "term", "fork" (fork fails), "hang"

ASSUME MaxProcsAssumption == MaxProcs \in Nat \ {0}
ASSUME BacklogAssumption  == Backlog \in Nat \ {0}
ASSUME PidAssumption      == \E S \in SUBSET Pid : IsFiniteSet(S) /\ Cardinality(S) > MaxProcs
ASSUME FaultsAssumption   == Faults \subseteq {"hup", "term", "fork", "hang"}

VARIABLES pc,       \* where the server process is
          procs,    \* server.procs
          done,     \* server.done
          batch,    \* events kevent64() returned and poll_events() has not handed over
          event,    \* the event server_poll() is handling, NoEvent after its branch
          fresh,    \* the pid fork() returned, until it is monitored
          child,    \* the state of every worker process
          backlog,  \* connections waiting for an accept(), oldest first
          watched,  \* workers with an armed EVFILT_PROC knote
          fired,    \* EVFILT_PROC knotes that fired and were not retrieved
          armed,    \* files with an armed EVFILT_VNODE knote
          touched,  \* EVFILT_VNODE knotes that fired and were not retrieved
          killed    \* kill(0,SIGTERM) reached the workers

vars == <<pc, procs, done, batch, event, fresh, child, backlog,
          watched, fired, armed, touched, killed>>
kernelVars == <<watched, fired, armed, touched>>
workerVars == <<child, backlog, killed>>
serverVars == <<pc, procs, done, batch, event, fresh>>

NoPid   == "no pid"
NoEvent == [type |-> "NONE", ident |-> {}]

\* The idents poll_events() passes on: the listening socket, a pid, a file.
PortEvent    == [type |-> "PORT", ident |-> {}]
ProcEvent(p) == [type |-> "PROC", ident |-> {p}]
NodeEvent(f) == [type |-> "NODE", ident |-> {f}]
Events == {PortEvent} \cup {ProcEvent(p) : p \in Pid} \cup {NodeEvent(f) : f \in File}

\* A process that exists, as a running worker or as a zombie.
Unreaped == {p \in Pid : child[p] # "free"}
Busy     == {p \in Pid : child[p] \in {"serving", "stuck"}}
Idle     == {p \in Pid : child[p] = "idle"}
Zombies  == {p \in Pid : child[p] = "zombie"}
Stuck    == {p \in Pid : child[p] = "stuck"}

InBacklog(c) == \E i \in 1..Len(backlog) : backlog[i] = c

\* What the kqueue has to report.
Ready == (IF backlog = <<>> THEN {} ELSE {PortEvent})
           \cup {ProcEvent(p) : p \in fired} \cup {NodeEvent(f) : f \in touched}

-----------------------------------------------------------------------------
(* serve(): the listening socket is bound, monitored, and every file loaded. *)
Init ==
  /\ pc = "loop"  /\ procs = 0  /\ done = FALSE
  /\ batch = {}   /\ event = NoEvent  /\ fresh = NoPid
  /\ child = [p \in Pid |-> "free"]
  /\ backlog = <<>>
  /\ watched = {} /\ fired = {} /\ touched = {} /\ armed = File
  /\ killed = FALSE

-----------------------------------------------------------------------------
(* The server process. *)

\* The test of while(!server.done).  A signal after it, and before the call of
\* kevent64(), interrupts nothing.
Loop ==
  /\ pc = "loop" /\ ~done
  /\ pc' = "enter"
  /\ UNCHANGED <<procs, done, batch, event, fresh, workerVars, kernelVars>>

EnterPoll ==
  /\ pc = "enter"
  /\ pc' = "poll"
  /\ UNCHANGED <<procs, done, batch, event, fresh, workerVars, kernelVars>>

\* kevent64() returns a snapshot of what is ready; one-shot knotes are gone.
Poll ==
  /\ pc = "poll" /\ Ready # {}
  /\ batch' = Ready
  /\ fired' = {} /\ touched' = {}
  /\ pc' = "next"
  /\ UNCHANGED <<procs, done, event, fresh, workerVars, watched, armed>>

\* Mutant: server_poll() without its first wait_proc().
NextEventNoWait ==
  /\ pc = "next"
  /\ \/ /\ batch = {}
        /\ pc' = "loop" /\ event' = NoEvent /\ batch' = batch
     \/ \E e \in batch :
        /\ event' = e /\ batch' = batch \ {e}
        /\ pc' = "act"
  /\ UNCHANGED <<procs, done, fresh, workerVars, kernelVars>>

\* The loop of poll_events(): the order of the events is the kernel's.
NextEvent ==
  /\ pc = "next"
  /\ \/ /\ batch = {}
        /\ pc' = "loop" /\ event' = NoEvent /\ batch' = batch
     \/ \E e \in batch :
        /\ event' = e /\ batch' = batch \ {e}
        /\ pc' = "wait"
  /\ UNCHANGED <<procs, done, fresh, workerVars, kernelVars>>

\* Mutant: wait_proc() does nothing while the pool has room.
WaitPidLazy ==
  /\ pc = "wait"
  /\ \/ /\ procs = MaxProcs
        /\ \E p \in Zombies : child' = [child EXCEPT ![p] = "free"]
        /\ pc' = "count"
     \/ /\ procs < MaxProcs \/ Zombies = {}
        /\ pc' = IF event = NoEvent THEN "next" ELSE "act"
        /\ child' = child
  /\ UNCHANGED <<procs, done, batch, event, fresh, backlog, killed, kernelVars>>

\* waitpid(-1,&status,WNOHANG): any zombie, or nothing to reap.  The first
\* wait_proc() of server_poll() leads to the branch on the event, the one of
\* that branch to the next event.
WaitPid ==
  /\ pc = "wait"
  /\ \/ \E p \in Zombies :
        /\ child' = [child EXCEPT ![p] = "free"]
        /\ pc' = "count"
     \/ /\ Zombies = {}
        /\ pc' = IF event = NoEvent THEN "next" ELSE "act"
        /\ child' = child
  /\ UNCHANGED <<procs, done, batch, event, fresh, backlog, killed, kernelVars>>

\* The rest of the loop of wait_proc(): once done is set the worker just reaped
\* is not counted.
Count ==
  /\ pc = "count"
  /\ \/ /\ ~done
        /\ procs' = procs - 1 /\ pc' = "wait"
     \/ /\ done
        /\ procs' = procs
        /\ pc' = IF event = NoEvent THEN "next" ELSE "act"
  /\ UNCHANGED <<done, batch, event, fresh, workerVars, kernelVars>>

\* incoming(): the pool is full and the event is ignored; it will be reported again.
PoolFull ==
  /\ pc = "act" /\ event.type = "PORT" /\ procs >= MaxProcs
  /\ pc' = "next" /\ event' = NoEvent
  /\ UNCHANGED <<procs, done, batch, fresh, workerVars, kernelVars>>

\* Mutant: if (server.procs > MAX_PROCS) return.
IncomingOneMore ==
  /\ pc = "act" /\ event.type = "PORT" /\ procs <= MaxProcs
  /\ procs' = procs + 1
  /\ \E p \in Pid \ Unreaped :
     /\ child' = [child EXCEPT ![p] = "idle"]
     /\ fresh' = p
  /\ pc' = "monitor" /\ event' = NoEvent
  /\ UNCHANGED <<done, batch, backlog, killed, kernelVars>>

\* incoming(): fork() succeeds.  The worker goes on to accept() in handle().
Incoming ==
  /\ pc = "act" /\ event.type = "PORT" /\ procs < MaxProcs
  /\ procs' = procs + 1
  /\ \E p \in Pid \ Unreaped :
     /\ child' = [child EXCEPT ![p] = "idle"]
     /\ fresh' = p
  /\ pc' = "monitor" /\ event' = NoEvent
  /\ UNCHANGED <<done, batch, backlog, killed, kernelVars>>

\* The exit of the server: its memory and its kqueue are gone, init reaps the zombies,
\* and the running workers live on.
ServerExit ==
  /\ pc' = "exited"
  /\ batch' = {} /\ event' = NoEvent /\ fresh' = NoPid
  /\ watched' = {} /\ fired' = {} /\ armed' = {} /\ touched' = {}
  /\ child' = [p \in Pid |-> IF child[p] = "zombie" THEN "free" ELSE child[p]]

\* incoming(): fork() fails and the server exits; nobody signals the workers.
ForkFails ==
  /\ "fork" \in Faults
  /\ pc = "act" /\ event.type = "PORT" /\ procs < MaxProcs
  /\ procs' = procs + 1
  /\ ServerExit
  /\ UNCHANGED <<done, backlog, killed>>

\* Mutant: a failed add_pid_monitor() gives the slot back, and wait_proc() again.
AddPidMonitorTwice ==
  /\ pc = "monitor"
  /\ watched' = IF child[fresh] = "zombie" THEN watched ELSE watched \cup {fresh}
  /\ procs' = IF child[fresh] = "zombie" THEN procs - 1 ELSE procs
  /\ fresh' = NoPid /\ pc' = "next"
  /\ UNCHANGED <<done, batch, event, workerVars, fired, armed, touched>>

\* add_pid_monitor(): a process that has already exited is not found (ESRCH), the
\* result is not looked at, and its exit is never reported.
AddPidMonitor ==
  /\ pc = "monitor"
  /\ watched' = IF child[fresh] = "zombie" THEN watched ELSE watched \cup {fresh}
  /\ fresh' = NoPid /\ pc' = "next"
  /\ UNCHANGED <<procs, done, batch, event, workerVars, fired, armed, touched>>

\* server_poll() on an exited worker: wait_proc() once more.
WaitAgain ==
  /\ pc = "act" /\ event.type = "PROC"
  /\ pc' = "wait" /\ event' = NoEvent
  /\ UNCHANGED <<procs, done, batch, fresh, workerVars, kernelVars>>

\* server_poll() on a file: reload() maps the new contents and does not arm the
\* one-shot knote again.
Reload ==
  /\ pc = "act" /\ event.type = "NODE"
  /\ pc' = "next" /\ event' = NoEvent
  /\ UNCHANGED <<procs, done, batch, fresh, workerVars, kernelVars>>

\* kill(0,SIGTERM) at the end of serve(): the signal reaches the server too, and
\* gen_signal_handler() exits before the test of server.restart.
KillGroup ==
  /\ pc = "loop" /\ done
  /\ killed' = TRUE /\ ServerExit
  /\ UNCHANGED <<procs, done, backlog>>

ServerStep ==
  \/ Loop \/ EnterPoll \/ Poll \/ NextEvent \/ WaitPid \/ Count
  \/ PoolFull \/ Incoming \/ AddPidMonitor \/ WaitAgain \/ Reload \/ KillGroup

-----------------------------------------------------------------------------
(* Signals sent to the server. *)

\* restart_signal_handler(): a blocked kevent64() fails with EINTR and the loop
\* tests done; anywhere else the server goes on with what it does.
Hup ==
  /\ "hup" \in Faults /\ pc # "exited" /\ ~done
  /\ done' = TRUE
  /\ pc' = IF pc = "poll" THEN "loop" ELSE pc
  /\ UNCHANGED <<procs, batch, event, fresh, workerVars, kernelVars>>

\* gen_signal_handler(): the server exits at once and alone.
Term ==
  /\ "term" \in Faults /\ pc # "exited"
  /\ done' = TRUE /\ ServerExit
  /\ UNCHANGED <<procs, backlog, killed>>

-----------------------------------------------------------------------------
(* The workers: handle() from the outside. *)

\* accept_socket(), then close() of the listening socket.
Accept(p) ==
  /\ child[p] = "idle" /\ backlog # <<>>
  /\ child' = [child EXCEPT ![p] = "serving"]
  /\ backlog' = Tail(backlog)
  /\ UNCHANGED <<serverVars, killed, kernelVars>>

\* A worker's exit is kept for waitpid() while the server lives, and fires the
\* knote of a watched worker.
Exit(p) ==
  /\ child' = [child EXCEPT ![p] = IF pc = "exited" THEN "free" ELSE "zombie"]
  /\ watched' = watched \ {p}
  /\ fired' = IF p \in watched THEN fired \cup {p} ELSE fired
  /\ UNCHANGED <<serverVars, killed, armed, touched>>

\* The peer of the next connection has given up (ECONNABORTED): accept() takes it from the
\* queue and fails, and handle() follows the NULL of accept_socket().
AcceptFails(p) ==
  /\ child[p] = "idle" /\ backlog # <<>>
  /\ backlog' = Tail(backlog)
  /\ Exit(p)

\* disconnect(), the end of handle(), or a crash: one connection per worker.
Finish(p) == child[p] = "serving" /\ Exit(p) /\ UNCHANGED backlog

\* The timer of a worker expires before it blocks, and its peer is silent: AlarmLost of
\* module Client.  Nothing but its peer, and a signal, can wake it then.
Hang(p) ==
  /\ "hang" \in Faults /\ child[p] = "serving"
  /\ child' = [child EXCEPT ![p] = "stuck"]
  /\ UNCHANGED <<serverVars, backlog, killed, kernelVars>>

Woken(p) == child[p] = "stuck" /\ Exit(p) /\ UNCHANGED backlog

\* Mutant: the handler returns, and accept() goes on.
KilledServing(p) == killed /\ child[p] = "serving" /\ Exit(p) /\ UNCHANGED backlog

\* gen_signal_handler() in a worker, after kill(0,SIGTERM).
Killed(p) ==
  /\ killed /\ child[p] \in {"idle", "serving", "stuck"}
  /\ Exit(p) /\ UNCHANGED backlog

-----------------------------------------------------------------------------
(* The kernel and the outside world. *)

\* Who holds the listening socket open: the server, and workers before accept().
Listening == pc # "exited" \/ Idle # {}

Connect(c) ==
  /\ Listening /\ ~InBacklog(c) /\ Len(backlog) < Backlog
  /\ backlog' = Append(backlog, c)
  /\ UNCHANGED <<serverVars, child, killed, kernelVars>>

\* The peer gives up before anybody accepted the connection.
Abort(i) ==
  /\ backlog' = SubSeq(backlog, 1, i - 1) \o SubSeq(backlog, i + 1, Len(backlog))
  /\ UNCHANGED <<serverVars, child, killed, kernelVars>>

\* The last process with the listening socket is gone: the kernel resets the queue.
Reset ==
  /\ ~Listening /\ backlog # <<>>
  /\ backlog' = <<>>
  /\ UNCHANGED <<serverVars, child, killed, kernelVars>>

\* The knote of a file fires.  add_event() asks for none of the NOTE_ flags, so what it
\* takes is the kernel's affair: nothing below counts on it.
Touch(f) ==
  /\ f \in armed
  /\ armed' = armed \ {f} /\ touched' = touched \cup {f}
  /\ UNCHANGED <<serverVars, workerVars, watched, fired>>

-----------------------------------------------------------------------------
Next ==
  \/ ServerStep \/ ForkFails \/ Hup \/ Term
  \/ \E p \in Pid : Accept(p) \/ AcceptFails(p) \/ Finish(p) \/ Hang(p) \/ Woken(p) \/ Killed(p)
  \/ \E c \in Conn : Connect(c)
  \/ \E i \in 1..Len(backlog) : Abort(i)
  \/ Reset
  \/ \E f \in File : Touch(f)

Spec == Init /\ [][Next]_vars

(* The kernel schedules every process, accept() returns to some idle worker, *)
(* a worker comes to its end or hangs (module Client: WorkerEnds), a signal  *)
(* is delivered.  Nobody has to connect, give up, wake a worker that hangs,  *)
(* touch a file or signal.                                                   *)
Fairness ==
  /\ WF_vars(ServerStep)
  /\ WF_vars(\E p \in Pid : Accept(p))
  /\ \A p \in Pid : WF_vars(Finish(p)) /\ WF_vars(Killed(p))
  /\ WF_vars(Reset)

FairSpec == Spec /\ Fairness

-----------------------------------------------------------------------------
(* Properties. *)

PcStates == {"loop", "enter", "poll", "next", "wait", "count", "act", "monitor", "exited"}

\* The type of every variable; procs never leaves 0..MaxProcs.
TypeOK ==
  /\ pc \in PcStates
  /\ procs \in 0..MaxProcs
  /\ done \in BOOLEAN /\ killed \in BOOLEAN
  /\ batch \in SUBSET Events
  /\ event \in Events \cup {NoEvent}
  /\ fresh \in Pid \cup {NoPid}
  /\ child \in [Pid -> {"free", "idle", "serving", "stuck", "zombie"}]
  /\ backlog \in Seq(Conn)
  /\ watched \in SUBSET Pid /\ fired \in SUBSET Pid
  /\ armed \in SUBSET File /\ touched \in SUBSET File

\* Workers and zombies together never exceed MAX_PROCS (server.c:28), whatever
\* the order of forks, exits, reaping and signals.
PoolBounded == Cardinality(Unreaped) <= MaxProcs

\* The worker waitpid() returned and wait_proc() has still to count.
Owed == IF pc = "count" THEN 1 ELSE 0

\* Until the server is told to stop, server.procs is exactly the number of
\* processes the pool holds: no slot is leaked and none is given back twice
\* (server.c:29 and 43).
ProcsExact == pc # "exited" /\ ~done => procs = Cardinality(Unreaped) + Owed

\* A connection in the listen queue does not stay there: a worker accepts it, its
\* peer gives up, or the queue goes with the last listener -- also when the pool
\* is full of workers whose exit the kqueue never reports (server.c:51).  Only a pool
\* of MAX_PROCS workers that all hang is never emptied: one that does not is enough.
EveryConnServed ==
  \A c \in Conn : InBacklog(c) ~> ~InBacklog(c) \/ Cardinality(Stuck) = MaxProcs

\* A monitored worker that exits is reaped even if no connection ever arrives
\* again (server.c:53).
ExitReaped == \A p \in Pid : child[p] = "zombie" /\ p \in fired ~> child[p] = "free"

\* The server will leave its loop: it is not about to block in kevent64() with an
\* unseen signal, or something no worker can take from it is there to wake it.
NoticesDone == done /\ (pc \notin {"enter", "poll"} \/ fired # {} \/ touched # {})

\* A SIGHUP the server notices ends with every process of the group gone, those
\* forked after the signal included, and an empty queue (server.c:106-108), unless
\* SIGTERM or a fork that fails ends the server before it signals its group.
RestartClears ==
  NoticesDone ~> pc = "exited" /\ (killed => Unreaped = {} /\ backlog = <<>>)

\* The service the server implements: one line, served in order, by at most MaxProcs
\* workers at a time, that is dropped only once the server has exited.
Svc == INSTANCE Service WITH
         Worker <- Pid, waiting <- backlog, busy <- Busy, open <- pc # "exited"

\* Every step of the server, its workers and the kernel is one of Service or none.
ImplementsService == Svc!Spec
=============================================================================
