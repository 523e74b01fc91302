SPECIFICATION AsmSpec
CONSTANTS
  W = 8
  SIZE = 3
  INPUTS <- MCInputs
  CanFail = TRUE
  EIO = 251
  BUF_SIZE = 4
  DEFINED <- MCDefined
INVARIANTS LongWordsFail LongestWordTaken NoNumberNoLength
CHECK_DEADLOCK FALSE
