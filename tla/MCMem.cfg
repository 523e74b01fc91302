SPECIFICATION FairSpec
CONSTANTS
  WORD = 1024
  PAGE_SIZE = 64
  HEADER_SIZE = 17
  BLOCK_MIN_CAPACITY = 24
  REGION_MIN_SIZE = 128
  HEAP_START = 192
  PAGES <- MCScatteredPages
  FOREIGN <- MCScatteredForeign
  QUERIES <- MCScatteredQueries
  HONOURS_NOREPLACE = FALSE
  CLIENT_CHECKS_ADDRESS = TRUE
INVARIANTS
  TypeOK
  BlocksDisjoint
  BlocksMapped
  NothingLost
  ListComplete
  ListFollowsRegions
  HeldIntact
  NothingPassedOver
  FreedHeapCoalesces
PROPERTIES
  HeldBlocksStay
  ImplementsAllocator
  MallocReturns
