\* Both signals, crashes and failing forks, at any moment; pids are reused.
SPECIFICATION FairSpec
CONSTANTS
  Pid = {1,2,3}
  Signals = 2
  Crashes = 2
  Faults = {"hup","term","fork"}
INVARIANTS OneOfEach PidfileNamesMonitor
PROPERTIES StopStops CrashRecovered
\* Everything may have been stopped.
CHECK_DEADLOCK FALSE
