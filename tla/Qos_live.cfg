\* the method may hang; only timers and locks are fair
CONSTANTS
  r1 = r1  r2 = r2  r3 = r3  k1 = k1  k2 = k2  NoKey = NoKey
  Requests = {r1, r2, r3}
  Keys = {k1}
  Interceptors = 2
  MaxAttempts = 2
  Retryable = {"error", "timeout"}
  Ttl <- Long
  MaxSize = 1
  MaxTime = 0
  Cancels = TRUE
SPECIFICATION FairSpec
PROPERTY RequestsEnd
CHECK_DEADLOCK FALSE
