\* One jawasd -r, no crash: is anything left that keeps Jawas alive?
SPECIFICATION FairSpec
CONSTANTS
  Pid = {1,2,3}
  Signals = 1
  Crashes = 0
  Faults = {"hup"}
INVARIANTS KeepsAlive
\* Everything may have been stopped.
CHECK_DEADLOCK FALSE
