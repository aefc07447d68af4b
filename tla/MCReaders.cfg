\* Two directories and two indexes, forms of up to two fields, documents of depth three, ints of 8 bits, headers of 2 cells.
SPECIFICATION Spec
CONSTANTS
  Indexes <- MCIndexes
  Types <- MCTypes
  IntBits = 8
  Header = 2
INVARIANTS RightAnswer FormRead JsonRead RequestUnderstood QueryBuilt
\* One answer per question.
CHECK_DEADLOCK FALSE
