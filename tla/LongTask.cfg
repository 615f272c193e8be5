SPECIFICATION Spec
CONSTANTS
  plain = plain
  long = long
  Requests = {plain, long}
  LongRequests = {long}
PROPERTIES
  TargetIsExecuted
