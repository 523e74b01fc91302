SPECIFICATION Spec
CONSTANTS
  WORD = 1024
  PAGE_SIZE = 64
  HEADER_SIZE = 17
  BLOCK_MIN_CAPACITY = 24
  REGION_MIN_SIZE = 128
  HEAP_START = 64
  PAGES <- MCPages
  FOREIGN = {}
  QUERIES <- MCQueries
  HONOURS_NOREPLACE = TRUE
  CLIENT_CHECKS_ADDRESS = TRUE
INVARIANTS
  HeldIntact
