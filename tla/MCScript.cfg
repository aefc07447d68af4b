\* Every file of up to five tokens; two pages whose scripts make up to four calls, two deep.
SPECIFICATION Spec
CONSTANTS
  Source <- MCSource
  Capacity = 4
  Acting <- MCActing
  MaxCalls = 4
  MaxDepth = 2
INVARIANTS MarksKept Divided InPlace DatabaseKept
PROPERTIES ImplementsTemplate
\* The worker is done, or waits for a datagram.
CHECK_DEADLOCK FALSE
