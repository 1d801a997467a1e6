\* A flush outlasts OUTBOX_GRACE and the id of its row is used again.
SPECIFICATION Spec
CONSTANTS
  Updates = {u1, u2}
  Replies <- ReportThenEdit
  MaxId = 2
  NoRow = NoRow
  Free = Free
  GRACE = 1
  BACKOFF_BASE = 1
  BACKOFF_MAX = 2
  TTL = 3
  MARK_TTL = 3
  PRUNE_EVERY = 1
  PURGE_EVERY = 1
  BATCH = 1
  RETENTION = 2
  MAX_ATTEMPTS = 3
  FLUSH = 1
  MaxCrashes = 0
  MaxDbFaults = 0
INVARIANT PromiseKept
