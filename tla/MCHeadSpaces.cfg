\* Messages with spaces before the method.
SPECIFICATION Spec
CONSTANTS
  Message <- MCSpaced
  MaxHeaders = 3
INVARIANTS SkipsSpaces
\* The parser ends.
CHECK_DEADLOCK FALSE
