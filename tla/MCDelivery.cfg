\* Two updates, one crash, one failed transaction, every order of steps.
SPECIFICATION Spec
CONSTANTS
  Updates = {u1, u2}
  Replies <- SomeReplies
  MaxId = 2
  NoRow = NoRow
  Free = Free
  GRACE = 1
  BACKOFF_BASE = 1
  BACKOFF_MAX = 2
  TTL = 2
  MARK_TTL = 2
  PRUNE_EVERY = 1
  PURGE_EVERY = 1
  BATCH = 2
  RETENTION = 2
  MAX_ATTEMPTS = 1
  FLUSH = 0
  MaxCrashes = 1
  MaxDbFaults = 1
SYMMETRY Interchangeable
INVARIANTS
  TypeOK
  ExactlyOnce
  PromiseKept
  NoReplyWithoutChange
  NoBlindResend
  
  SentIsStruckOff
PROPERTIES
  FateOfEveryRow
  KeepsPromises
