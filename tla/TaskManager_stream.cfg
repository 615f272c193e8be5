SPECIFICATION Spec
CONSTANTS
  s1 = s1
  t1 = t1  t2 = t2  t3 = t3
  TaskIds = {t1}
  Subscribers = {s1}
  MaxTasks = 1
  MaxRecords = 1
  Reusable = {}
  Expiring = {}
  Filters <- AllEvents
  Loops = {"task_subscribe", "stream"}
CHECK_DEADLOCK FALSE
INVARIANTS
  StreamsToldOutcome
