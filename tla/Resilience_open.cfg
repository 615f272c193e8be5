\* with and without a fallback
CONSTANTS
  r1 = r1  r2 = r2
  Requests = {r1, r2}
  max_concurrent = 2
  queue_depth = 3
  failure_threshold = 1
  success_threshold = 2
  timeout_seconds = 2
  half_open_max_calls = 1
  rate = 1
  burst = 2
  Second = 2
SPECIFICATION Spec
PROPERTY NoRunWhileOpen
