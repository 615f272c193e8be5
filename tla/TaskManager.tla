----------------------------- MODULE TaskManager -----------------------------
(***************************************************************************)
(* server/tasks/task_manager.py: InMemoryTaskManager, with the two loops   *)
(* of server/request_handlers/default_request_handler.py that serve a      *)
(* subscription: task_subscribe and _handle_task_subscribe ("stream").     *)
(*                                                                         *)
(* The manager's sections under its lock contain no await, and neither     *)
(* does what each method does after them; one method call is one step.     *)
(* Records are numbered in the order of creation; an event refers to the   *)
(* live record, as in the code, and is not a copy of it.                   *)
(***************************************************************************)
EXTENDS Integers, FiniteSets, Sequences

CONSTANTS
  TaskIds,       \* task identifiers
  Subscribers,   \* client streams; each subscribes once
  MaxTasks,      \* _max_tasks
  MaxRecords,    \* bound: records created in a behaviour
  Reusable,      \* the ids that callers pass again though they were used before
  Expiring,      \* the tasks submitted with a TTL that may pass
  Filters,       \* the sets of event names a client may ask for; {} asks for all
  Loops          \* which of "task_subscribe" and "stream" serve subscriptions

ASSUME TaskManagerAssumption ==
  /\ MaxTasks \in Nat \ {0}
  /\ MaxRecords \in Nat
  /\ Reusable \subseteq TaskIds
  /\ Expiring \subseteq TaskIds
  /\ Loops \subseteq {"task_subscribe", "stream"}

VARIABLES
  records,      \* every TaskRecord created, in order: its task_id and status
  completed_at, \* the completed_at_ms of each record, as a number that grows; 0 is None
  tasks,        \* _tasks: the record of each task_id, or Absent
  expired,      \* the task_ids whose _expiry has passed
  subs,         \* _subs: the registered queues of each task_id
  runner,       \* where the runner of each record is
  stream        \* the handler loop of each subscriber, with its queue

vars == <<records, completed_at, tasks, expired, subs, runner, stream>>
-----------------------------------------------------------------------------
Absent == 0
Terminal == {"succeeded", "failed", "canceled"}
Statuses == {"pending", "running"} \cup Terminal
EventNames == {"progress", "started", "completed", "failed"}

Status(r) == records[r].status
Known == {t \in TaskIds : tasks[t] # Absent}
Active == {t \in Known : Status(tasks[t]) \notin Terminal}

\* _event_for_task
EventFor(status) ==
  CASE status = "running" -> "started"
    [] status = "succeeded" -> "completed"
    [] status \in {"failed", "canceled"} -> "failed"
    [] OTHER -> "progress"

Unstarted == [phase |-> "idle", task_id |-> Absent, loop |-> "", events |-> {},
              queue |-> <<>>, name |-> "", record |-> Absent, told |-> ""]

Init ==
  /\ records = <<>>
  /\ completed_at = <<>>
  /\ tasks = [t \in TaskIds |-> Absent]
  /\ expired = {}
  /\ subs = [t \in TaskIds |-> {}]
  /\ runner = <<>>
  /\ stream = [s \in Subscribers |-> Unstarted]
-----------------------------------------------------------------------------
(* Emitting and deleting *)

EmitToNobody(receivers, r, status) == UNCHANGED stream  \* mutant of Emit

\* _emit: every registered queue gets the event
Emit(receivers, r, status) ==
  stream' = [s \in Subscribers |->
    IF s \in receivers
    THEN [stream[s] EXCEPT !.queue = Append(@, [name |-> EventFor(status), record |-> r])]
    ELSE stream[s]]

DeleteButQueues(T) ==  \* mutant of Delete: the queues stay registered
  /\ tasks' = [t \in TaskIds |-> IF t \in T THEN Absent ELSE tasks[t]]
  /\ expired' = expired \ T
  /\ UNCHANGED subs

DeleteButExpiry(T) ==  \* mutant of Delete: the expiry times are kept
  /\ tasks' = [t \in TaskIds |-> IF t \in T THEN Absent ELSE tasks[t]]
  /\ subs' = [t \in TaskIds |-> IF t \in T THEN {} ELSE subs[t]]
  /\ UNCHANGED expired

\* _delete_locked, for each of T
Delete(T) ==
  /\ tasks' = [t \in TaskIds |-> IF t \in T THEN Absent ELSE tasks[t]]
  /\ expired' = expired \ T
  /\ subs' = [t \in TaskIds |-> IF t \in T THEN {} ELSE subs[t]]

NoneFinished(T) == {}  \* mutant of Surplus

\* what the aggressive pass of _gc_locked deletes from T: the finished tasks, oldest first
Surplus(T) ==
  LET done == {t \in T : Status(tasks[t]) \in Terminal}
      older(t) == {u \in done : completed_at[tasks[u]] < completed_at[tasks[t]]}
      excess == Cardinality(T) - (MaxTasks * 9) \div 10
  IN  {t \in done : Cardinality(older(t)) < excess}

Oldest(T) == CHOOSE t \in T : \A u \in T : tasks[t] <= tasks[u]

\* what submit deletes besides the expired tasks to make room in T
DroppedOffByOne(T) ==  \* mutant of Dropped
  IF Cardinality(T) <= MaxTasks THEN {} ELSE Surplus(T)

Dropped(T) ==
  IF Cardinality(T) < MaxTasks THEN {}
  ELSE LET left == T \ Surplus(T)
       IN  Surplus(T) \cup (IF Cardinality(left) >= MaxTasks THEN {Oldest(left)} ELSE {})
-----------------------------------------------------------------------------
(* submit *)

Unused(t) == \A r \in DOMAIN records : records[r].task_id # t

SubmitNew(t) ==
  LET live == Known \ expired
      gone == (Known \cap expired) \cup Dropped(live)
      r == Len(records) + 1
  IN  /\ t \notin live
      /\ r <= MaxRecords
      /\ t \in Reusable \/ Unused(t)
      /\ tasks' = [u \in TaskIds |->
                     IF u = t THEN r ELSE IF u \in gone THEN Absent ELSE tasks[u]]
      /\ expired' = expired \ (gone \cup {t})
      /\ subs' = [u \in TaskIds |-> IF u \in gone THEN {} ELSE subs[u]]
      /\ records' = Append(records, [task_id |-> t, status |-> "pending"])
      /\ runner' = Append(runner, "created")
      /\ Emit(subs'[t], r, "pending")
      /\ completed_at' = Append(completed_at, 0)

\* get() of any client, and submit() of a task that is already there
CollectExpired ==
  /\ Known \cap expired # {}
  /\ Delete(Known \cap expired)
  /\ UNCHANGED <<records, completed_at, runner, stream>>

\* the TTL of a task passes, whatever the task is doing
Expire(t) ==
  /\ t \in (Expiring \cap Known) \ expired
  /\ expired' = expired \cup {t}
  /\ UNCHANGED <<records, completed_at, tasks, subs, runner, stream>>
-----------------------------------------------------------------------------
(* The runner of a record: it finds the record again by task_id. *)

\* _now_ms(), of runners that end one after another
Now == 1 + Cardinality({r \in DOMAIN runner : runner[r] = "done"})

\* _set_status, _set_result and _set_error
SetStatus(t, status) ==
  IF tasks[t] = Absent
  THEN UNCHANGED <<records, completed_at, stream>>
  ELSE LET r == tasks[t]
       IN  /\ records' = [records EXCEPT ![r].status = status]
           /\ completed_at' = IF status \in Terminal THEN [completed_at EXCEPT ![r] = Now]
                              ELSE completed_at
           /\ Emit(subs[t], r, status)

RunnerStarts(r) ==
  /\ runner[r] = "created"
  /\ runner' = [runner EXCEPT ![r] = "running"]
  /\ SetStatus(records[r].task_id, "running")
  /\ UNCHANGED <<tasks, expired, subs>>

RunnerReportsTwice(r) ==  \* mutant of RunnerEnds: an outcome may be replaced by another
  /\ runner[r] = "running"
  /\ \E outcome \in Terminal : SetStatus(records[r].task_id, outcome)
  /\ UNCHANGED <<tasks, expired, subs, runner>>

RunnerEnds(r) ==
  /\ runner[r] = "running"
  /\ runner' = [runner EXCEPT ![r] = "done"]
  /\ \E outcome \in Terminal : SetStatus(records[r].task_id, outcome)
  /\ UNCHANGED <<tasks, expired, subs>>
-----------------------------------------------------------------------------
(* subscribe and the loop that serves the stream *)

FirstEventMissing(r) == <<>>  \* mutant of FirstEvents
FirstEvents(r) == <<[name |-> EventFor(Status(r)), record |-> r]>>

\* what a client of each loop may ask for: the parameters of task/subscribe hold no event names
Asked(loop) == IF loop = "task_subscribe" THEN Filters ELSE {{}}

\* subscribe() finds the task; get() has collected what expired
Subscribe(s, t) ==
  LET gone == Known \cap expired
  IN  /\ stream[s].phase = "idle"
      /\ t \in Known \ gone
      /\ tasks' = [u \in TaskIds |-> IF u \in gone THEN Absent ELSE tasks[u]]
      /\ expired' = expired \ gone
      /\ subs' = [u \in TaskIds |-> IF u \in gone THEN {}
                                    ELSE IF u = t THEN subs[u] \cup {s} ELSE subs[u]]
      /\ \E loop \in Loops : \E events \in Asked(loop) :
           stream' = [stream EXCEPT ![s] =
             [Unstarted EXCEPT !.phase = "waiting", !.task_id = t, !.loop = loop,
                               !.events = events, !.queue = FirstEvents(tasks[t])]]
      /\ UNCHANGED <<records, completed_at, runner>>

\* q.get(): the client is sent the event with the record as it is now
Receive(s) ==
  LET ev == Head(stream[s].queue)
      wanted == stream[s].events = {} \/ ev.name \in stream[s].events
  IN  /\ stream[s].phase = "waiting"
      /\ stream[s].queue # <<>>
      /\ stream' = [stream EXCEPT
           ![s].queue = Tail(@),
           ![s].phase = IF wanted THEN "yielded" ELSE "waiting",
           ![s].name = IF wanted THEN ev.name ELSE @,
           ![s].record = IF wanted THEN ev.record ELSE @,
           ![s].told = IF wanted THEN Status(ev.record) ELSE @]
      /\ UNCHANGED <<records, completed_at, tasks, expired, subs, runner>>

\* unsubscribe(), then the generator ends as phase says
Leave(s, phase) ==
  /\ subs' = [subs EXCEPT ![stream[s].task_id] = @ \ {s}]
  /\ stream' = [stream EXCEPT ![s] = [Unstarted EXCEPT
                  !.phase = phase, !.task_id = stream[s].task_id, !.loop = stream[s].loop,
                  !.told = stream[s].told]]

EndsOnCompletedOnly(s) ==  \* mutant of Finished: the stream of a failed task goes on
  stream[s].name = "completed"

EndsByLiveRecord(s) ==  \* mutant of Finished: what the client was sent is not consulted
  Status(stream[s].record) \in Terminal

\* after the yield: task_subscribe looks at the copy it sent, "stream" at the live record
Finished(s) ==
  \/ stream[s].name = "completed"
  \/ stream[s].loop = "task_subscribe" /\ stream[s].told \in Terminal
  \/ stream[s].loop = "stream" /\ Status(stream[s].record) \in Terminal

Resume(s) ==
  /\ stream[s].phase = "yielded"
  /\ IF Finished(s)
     THEN Leave(s, "ended")
     ELSE /\ stream' = [stream EXCEPT ![s].phase = "waiting",
                                        ![s].name = "", ![s].record = Absent]
          /\ UNCHANGED subs
  /\ UNCHANGED <<records, completed_at, tasks, expired, runner>>

\* the client goes away: the generator is closed or cancelled where it is suspended
Disconnect(s) ==
  /\ stream[s].phase \in {"waiting", "yielded"}
  /\ Leave(s, "gone")
  /\ UNCHANGED <<records, completed_at, tasks, expired, runner>>

Next ==
  \/ \E t \in TaskIds : SubmitNew(t) \/ Expire(t)
  \/ CollectExpired
  \/ \E r \in DOMAIN records : RunnerStarts(r) \/ RunnerEnds(r)
  \/ \E s \in Subscribers :
       \/ \E t \in TaskIds : Subscribe(s, t)
       \/ Receive(s) \/ Resume(s) \/ Disconnect(s)

Spec == Init /\ [][Next]_vars

(* The event loop runs every ready coroutine, and submitted work ends. *)
Fairness ==
  /\ \A r \in 1..MaxRecords :
       WF_vars(r \in DOMAIN records /\ (RunnerStarts(r) \/ RunnerEnds(r)))
  /\ \A s \in Subscribers : WF_vars(Receive(s) \/ Resume(s))

FairSpec == Spec /\ Fairness
-----------------------------------------------------------------------------
(* Records, tasks and registrations refer to one another consistently. *)
TypeOK ==
  /\ records \in Seq([task_id : TaskIds, status : Statuses])
  /\ completed_at \in [DOMAIN records -> Nat]
  /\ tasks \in [TaskIds -> {Absent} \cup DOMAIN records]
  /\ \A t \in Known : records[tasks[t]].task_id = t
  /\ expired \subseteq Known
  /\ subs \in [TaskIds -> SUBSET Subscribers]
  /\ runner \in [DOMAIN records -> {"created", "running", "done"}]
  /\ \A s \in Subscribers :
       stream[s].phase \in {"idle", "waiting", "yielded", "ended", "gone"}

(* However submissions, expiry and evictions fall, the table never holds   *)
(* more than max_tasks tasks, ...                                          *)
TableBounded == Cardinality(Known) <= MaxTasks

(* ... and a queue is registered only for a task in the table, by a stream *)
(* that is still served: neither eviction nor a client that left leaks one.*)
NoOrphanQueues ==
  \A t \in TaskIds : \A s \in subs[t] :
    /\ t \in Known
    /\ stream[s].task_id = t
    /\ stream[s].phase \in {"waiting", "yielded"}

(* No lost wake-up: a registered, unfiltered stream that waits on an empty *)
(* queue has been told the status the task has now, and that is not a      *)
(* final one.  It holds although events are not copies of the record.      *)
WaitingStreamIsUpToDate ==
  \A s \in Subscribers :
    LET t == stream[s].task_id
    IN  (/\ stream[s].phase = "waiting"
         /\ stream[s].queue = <<>>
         /\ stream[s].events = {}
         /\ s \in subs[t])
        => /\ stream[s].told = Status(tasks[t])
           /\ Status(tasks[t]) \notin Terminal

(* A task that has neither expired nor finished is dropped only as the     *)
(* oldest one, by a submit that found the table full of such tasks.        *)
ActiveTasksDroppedLast ==
  [][\A t \in Active \ expired :
       tasks'[t] # tasks[t] =>
         /\ Cardinality(Active \ expired) = MaxTasks
         /\ t = Oldest(Active \ expired)
         /\ Len(records') > Len(records)]_vars

(* Polling shows each task a proper life: see TaskLifecycle.  It needs an  *)
(* identifier that is not reused, as a runner writes to whatever record    *)
(* now has its task_id; the reuse of other identifiers does no harm.       *)
Lifecycle == INSTANCE TaskLifecycle WITH
  TaskIds <- TaskIds \ Reusable,
  seen <- [t \in TaskIds \ Reusable |->
             IF t \in Known THEN Status(tasks[t])
             ELSE IF Unused(t) THEN "unknown" ELSE "forgotten"]

PollingIsConsistent == Lifecycle!Spec

(* README.md:46: a subscriber is notified on completion.  A stream that    *)
(* the server ends has told its client the final status, unless its        *)
(* identifier is used again, when the old runner's event may show what the *)
(* new runner has made of the record, ...                                  *)
ToldOutcome(loop) ==
  \A s \in Subscribers :
    /\ stream[s].phase = "ended"
    /\ stream[s].loop = loop
    /\ stream[s].task_id \notin Reusable
    => stream[s].told \in Terminal

(* ... if task_subscribe serves it ... *)
SubscribersToldOutcome == ToldOutcome("task_subscribe")

(* ... and it ought to be so for the stream of task/subscribe too. *)
StreamsToldOutcome == ToldOutcome("stream")

Over(s) == stream[s].phase \in {"ended", "gone"}

(* The manager has dropped the task, and with it the stream's queue. *)
Unregistered(s) == \A t \in TaskIds : s \notin subs[t]

(* The task has ended in an event that the client did not ask for, which   *)
(* task_subscribe skips before it tests whether the stream is over.        *)
Unheard(s) ==
  \E t \in TaskIds :
    /\ s \in subs[t]
    /\ Status(tasks[t]) \in Terminal
    /\ stream[s].events # {}
    /\ EventFor(Status(tasks[t])) \notin stream[s].events

(* README.md:51: a subscription ends by itself on completion.  It does     *)
(* unless the manager drops the task or the task ends unheard: no          *)
(* interleaving of runner, registration and loop loses the event that ends *)
(* the stream, and no other filter keeps it open.                          *)
SubscriptionEndsUnlessDroppedOrUnheard ==
  \A s \in Subscribers :
    stream[s].phase = "waiting" ~> Over(s) \/ Unregistered(s) \/ Unheard(s)
=============================================================================
