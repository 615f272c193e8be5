\* cancellations and late results, with every threshold passed in two steps
CONSTANTS
  c1 = c1  c2 = c2  c3 = c3  c4 = c4
  Calls = {c1, c2, c3, c4}
  Cancellable = {c1, c2, c3, c4}
  failure_threshold = 2
  success_threshold = 2
  timeout_seconds = 2
  half_open_max_calls = 2
SPECIFICATION FairSpec
INVARIANTS TypeOK CountsMatchState SlotsAreHeldOrLeaked OverrunIsInherited
PROPERTIES PolicyIsKept HealthyServiceClosesUnlessLeaked
