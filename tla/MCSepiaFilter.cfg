SPECIFICATION Spec
CONSTANTS
  NULL = NULL
  Blocks = {b1, b2, b3, b4}
  FILES <- MCFiles
  MODES <- MCModes
  Iterations = 2
  U32 = 4096
  U64 = 1048576
  MaxWidth = 5
  MaxHeight = 3
SYMMETRY Symmetry
INVARIANTS
  OutputIsRight
  ImagesOwned
  ExitFreesAll
CHECK_DEADLOCK FALSE
