\* Every request in every split, with a reset, a close and the alarm anywhere.
SPECIFICATION FairSpec
CONSTANTS
  Request <- MCRequest
  MaxBuffer = 3
  MaxRetries = 2
INVARIANTS BytesConserved AnswerComplete OneArmed NoSilentDrop
PROPERTIES WorkerEnds RequestAnswered
\* The worker exits.
CHECK_DEADLOCK FALSE
