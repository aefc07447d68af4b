\* Every part of messages with one to four headers; three fill the slots.
SPECIFICATION FairSpec
CONSTANTS
  Message <- MCMessage
  MaxHeaders = 3
INVARIANTS HeadFound NoWrongHeader WholeHeadSurvives RequestLineRead
PROPERTY ParseEnds
\* The parser ends.
CHECK_DEADLOCK FALSE
