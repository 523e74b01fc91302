SPECIFICATION Spec
CONSTANTS
  THREADS = {t1, t2}
  CHUNKS = {c1, c2, c3}
  NULL = NULL
  TCACHE_COUNT = 1
INVARIANTS OwnedOnce NothingLost NoFasttopAlarm
PROPERTY LockIsReleased
