\* Every answer, with a send buffer that never takes one whole.
SPECIFICATION FairSpec
CONSTANTS
  Answer <- MCAnswer
  Headers = 1
  MaxWrite = 2
  SendBuffer = 4
INVARIANTS WireExact FileWhole
PROPERTIES ResponseEnds
\* The worker is done.
CHECK_DEADLOCK FALSE
