\* a queue longer than the semaphore: callers wait for both
CONSTANTS
  c1 = c1  c2 = c2  c3 = c3  c4 = c4
  Callers = {c1, c2, c3, c4}
  max_concurrent = 2
  queue_depth = 3
  Cancels = TRUE
SPECIFICATION FairSpec
INVARIANTS TypeOK SlotsAddUp PlaceholdersAddUp
PROPERTY EveryCallEnds
