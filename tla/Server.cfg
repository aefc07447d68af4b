\* Every fault at any moment, a pool of two, one process id to spare.  An accepted
\* connection leaves its name to another one, so any number of them comes one at a time.
SPECIFICATION FairSpec
CONSTANTS
  Pid = {p1, p2, p3}
  Conn = {c1}
  File = {f1}
  MaxProcs = 2
  Backlog = 1
  Faults = {"hup", "term", "fork", "hang"}
INVARIANTS PoolBounded ProcsExact
PROPERTIES ImplementsService EveryConnServed ExitReaped RestartClears
\* The server exits.
CHECK_DEADLOCK FALSE
