SPECIFICATION Spec
CONSTANTS
  NULL = NULL
  Blocks = {b1, b2, b3}
  FILES <- MCWholeFiles
  PARAMS <- MCParams
  U64 = 1048576
  MaxWidth = 4
  MaxHeight = 2
SYMMETRY Symmetry
INVARIANTS
  PaddingErrorMeansFailure
CHECK_DEADLOCK FALSE
