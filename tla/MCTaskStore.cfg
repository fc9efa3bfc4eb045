SPECIFICATION StoreSpec
CONSTANTS
  w1 = w1
  w2 = w2
  NoWorker = NoWorker
  Workers = {w1, w2}
  Tasks = {1, 2, 3}
  Required <- MCRequired
  Offered <- MCOffered
  IdempotencyKey <- MCIdempotencyKey
  CandidateLimit = 3
  SkipLocked = TRUE
  MaxAttempts = 3
INVARIANTS
  StoreTypeOK
  LeaseConsistent
  OneRowPerKey
PROPERTIES
  LiveLeaseKept
  LifecycleSpec
