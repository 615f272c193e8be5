\* one identifier is used again while the runner of its first record is there; tasks expire and are
\* dropped for lack of room
CONSTANTS
  s1 = s1  t1 = t1  t2 = t2  t3 = t3
  TaskIds = {t1, t2, t3}
  Subscribers = {s1}
  MaxTasks = 2
  MaxRecords = 3
  Reusable = {t1}
  Expiring = {t1}
  Filters <- SomeEvents
  Loops = {"task_subscribe", "stream"}
SPECIFICATION FairSpec
CONSTRAINT T2First
CHECK_DEADLOCK FALSE
INVARIANTS
  TypeOK
  TableBounded
  NoOrphanQueues
  WaitingStreamIsUpToDate
  SubscribersToldOutcome
PROPERTIES
  ActiveTasksDroppedLast
  PollingIsConsistent
  SubscriptionEndsUnlessDroppedOrUnheard
