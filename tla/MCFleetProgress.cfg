SPECIFICATION LoopSpec
CONSTANTS
  w1 = w1
  w2 = w2
  NoWorker = NoWorker
  NoTask = NoTask
  Workers = {w1, w2}
  Tasks = {1, 2}
  Required <- MCRequired
  Offered <- MCOffered
  IdempotencyKey <- MCIdempotencyKey
  CandidateLimit = 2
  SkipLocked = FALSE
  MaxAttempts = 2
  MaxFaults = 1
PROPERTIES
  CancelReachesWorker
  CompatibleTaskDecided
