\* half_open_max_calls is clamped to 1
CONSTANTS
  c1 = c1  c2 = c2
  Calls = {c1, c2}
  Cancellable = {c1, c2}
  failure_threshold = 1
  success_threshold = 2
  timeout_seconds = 1
  half_open_max_calls = 0
SPECIFICATION FairSpec
PROPERTY HealthyServiceCloses
