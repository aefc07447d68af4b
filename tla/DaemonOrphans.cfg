\* One crash, no signal: does the next server get the port?
SPECIFICATION FairSpec
CONSTANTS
  Pid = {1,2,3}
  Signals = 0
  Crashes = 1
  Faults = {}
PROPERTIES ServesAgain
\* A server nobody signals goes on for ever.
CHECK_DEADLOCK FALSE
