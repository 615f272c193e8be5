\* the two interceptors of the default chain, both of which retry
CONSTANTS
  r1 = r1  r2 = r2  r3 = r3  k1 = k1  k2 = k2  NoKey = NoKey
  Requests = {r1, r2, r3}
  Keys = {k1, k2}
  Interceptors = 2
  MaxAttempts = 2
  Retryable = {"timeout"}
  Ttl <- ShortThenLong
  MaxSize = 1
  MaxTime = 3
  Cancels = TRUE
SYMMETRY RequestSymmetry
SPECIFICATION Spec
INVARIANTS TypeOK SingleFlight AnswersAreFresh
PROPERTIES NoRunWhileRemembered AnswersAgree
CHECK_DEADLOCK FALSE
