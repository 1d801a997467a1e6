\* Fairness, backoffs that overflow.
SPECIFICATION FairSpec
CONSTANTS
  Updates = {u1, u2}
  Replies <- Reports
  MaxId = 2
  NoRow = NoRow
  Free = Free
  GRACE = 1
  BACKOFF_BASE = 1
  BACKOFF_MAX = 1
  TTL = 2
  MARK_TTL = 2
  PRUNE_EVERY = 1
  PURGE_EVERY = 1
  BATCH = 1
  RETENTION = 1
  MAX_ATTEMPTS = 1
  FLUSH = 0
  MaxCrashes = 1
  MaxDbFaults = 0
PROPERTIES
  QueueDrains
  UpdateEnds
  ResolvesPromises
