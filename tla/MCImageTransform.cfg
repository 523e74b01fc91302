SPECIFICATION FairSpec
CONSTANTS
  NULL = NULL
  Blocks = {b1, b2, b3}
  FILES <- MCFiles
  PARAMS <- MCParams
  U64 = 1048576
  MaxWidth = 5
  MaxHeight = 3
INVARIANTS
  OutputIsPrefix
  SuccessIsComplete
  ShortFileGivesNothing
  HeapOwned
  StreamsClosed
PROPERTIES
  Terminates
CHECK_DEADLOCK FALSE
