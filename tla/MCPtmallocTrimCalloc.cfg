SPECIFICATION Spec
CONSTANTS
  SIZE_SZ = 1  MALLOC_ALIGNMENT = 2  NSMALLBINS = 6  LASTBIN = 10
  LARGEBINS <- Rows2
  PAGE = 16
  TCACHE_BINS = 2  TCACHE_SIZE = 8
  MXFAST = 5
  TOP_PAD = 0  TRIM_THRESHOLD = 24  MMAP_THRESHOLD_MAX = 80
  MMAP_AS_MORECORE_SIZE = 16
  FASTBIN_CONSOLIDATION_THRESHOLD = 16
  SETUPS <- MCTrim
INVARIANT CallocClears
