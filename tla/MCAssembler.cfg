SPECIFICATION AsmSpec
CONSTANTS
  W = 8
  SIZE = 3
  INPUTS <- MCInputs
  CanFail = TRUE
  EIO = 251
  BUF_SIZE = 4
  DEFINED <- MCDefined
INVARIANTS NumbersRead CopiesWhatFits WordsInOrder DictionaryBufferKept DictionaryAnswers
PROPERTY ReadersReturn
CHECK_DEADLOCK FALSE
