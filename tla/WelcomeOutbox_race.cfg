SPECIFICATION FairSpec
CONSTANTS
  Users = {u1}
  Workers = {w1, w2}
  MaxAttempts = 2
  ClaimLimit = 10
  CircuitBreaker = 2
  Lease = 2
  RunBudget = 1
  Window = 2
  KeyTTL = 3
  MaxEpoch = 2
INVARIANT WelcomedAtMostOnce
INVARIANT RowsTellTheTruth
INVARIANT QueuedOnlyWithProvenance
PROPERTY EventsSettle
