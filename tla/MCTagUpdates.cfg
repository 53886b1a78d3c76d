CONSTANTS
  PtrBytes = 2
  WordBits = 4
  NumWords = 2

SPECIFICATION Spec

INVARIANTS
  TypeOK
  WholeWordUpdateIsExact
  PrefixClearCovers

\* An assertion that fails ends the process.
CHECK_DEADLOCK FALSE
