------------------------------ MODULE Service -------------------------------
(***************************************************************************)
(* What the server process and its workers promise together, without forks,*)
(* events, zombies and counters: connections wait in line, are taken up in *)
(* the order of their arrival, and at most MaxProcs are served at a time.  *)
(* Nobody is turned out of the line before the service has closed; those   *)
(* being served then, and workers still waiting, may go on.                *)
(***************************************************************************)
EXTENDS Integers, Sequences, FiniteSets

CONSTANTS Worker, Conn, MaxProcs

VARIABLES waiting,   \* the line, first come first
          busy,      \* the workers that serve a connection
          open       \* the service has not closed

vars == <<waiting, busy, open>>

Init == waiting = <<>> /\ busy = {} /\ open = TRUE

Arrive ==
  /\ \E c \in Conn : waiting' = Append(waiting, c)
  /\ UNCHANGED <<busy, open>>

\* Somebody in the line gives up.
Leave ==
  /\ \E i \in 1..Len(waiting) :
       waiting' = SubSeq(waiting, 1, i - 1) \o SubSeq(waiting, i + 1, Len(waiting))
  /\ UNCHANGED <<busy, open>>

Start ==
  /\ waiting # <<>> /\ Cardinality(busy) < MaxProcs
  /\ \E p \in Worker \ busy : busy' = busy \cup {p}
  /\ waiting' = Tail(waiting)
  /\ UNCHANGED open

Stop ==
  /\ \E p \in busy : busy' = busy \ {p}
  /\ UNCHANGED <<waiting, open>>

Close ==
  /\ open /\ open' = FALSE
  /\ UNCHANGED <<waiting, busy>>

Drop ==
  /\ ~open /\ waiting' = <<>>
  /\ UNCHANGED <<busy, open>>

Next == Arrive \/ Leave \/ Start \/ Stop \/ Close \/ Drop

Spec == Init /\ [][Next]_vars
=============================================================================
