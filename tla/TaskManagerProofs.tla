-------------------------- MODULE TaskManagerProofs --------------------------
(***************************************************************************)
(* For any task ids, subscribers and table size: what the manager's table, *)
(* its registrations, its runners and the streams have to do with one      *)
(* another.  The invariants build on one another:                          *)
(*                                                                         *)
(*   Types          the types, of the streams, too,                        *)
(*   NoOrphanQueues, TableFits                                             *)
(*   Current        what is queued for and was told to a registered stream *)
(*                  is about the record in the table now,                  *)
(*   Lives          an id that is not reused has one record, whose status  *)
(*                  goes with its runner: so TaskLifecycle is implemented, *)
(*   AllCompleted   a stream that has a "completed" event has been told,   *)
(*                  or is about to be told, a final status.                *)
(***************************************************************************)
EXTENDS TaskManager, TLAPS, FiniteSetTheorems, WellFoundedInduction, SequenceTheorems

Record == [task_id : TaskIds, status : Statuses]
Event == [name : EventNames, record : DOMAIN records]
Stream ==
  [phase : {"idle", "waiting", "yielded", "ended", "gone"},
   task_id : TaskIds \cup {Absent}, loop : Loops \cup {""}, events : Filters \cup {{}},
   queue : Seq(Event), name : EventNames \cup {""}, record : {Absent} \cup DOMAIN records,
   told : Statuses \cup {""}]

Types ==
  /\ records \in Seq(Record)
  /\ tasks \in [TaskIds -> {Absent} \cup DOMAIN records]
  /\ \A t \in Known : records[tasks[t]].task_id = t
  /\ expired \subseteq Known
  /\ subs \in [TaskIds -> SUBSET Subscribers]
  /\ runner \in [DOMAIN records -> {"created", "running", "done"}]
  /\ completed_at \in [DOMAIN records -> Nat]
  /\ stream \in [Subscribers -> Stream]
-----------------------------------------------------------------------------
(* What the operations change *)

(* _emit appends one event to some queues, whatever the status.            *)
LEMMA EmitTypes ==
  ASSUME stream \in [Subscribers -> Stream], NEW receivers, NEW status,
         NEW r \in DOMAIN records', Emit(receivers, r, status),
         DOMAIN records \subseteq DOMAIN records'
  PROVE  stream' \in [Subscribers -> Stream']
<1> DEFINE event == [name |-> EventFor(status), record |-> r]
<1>1. event \in Event'
  BY DEF Event, EventFor, EventNames
<1>2. Seq(Event) \subseteq Seq(Event')
  <2>1. Event \subseteq Event'
    BY DEF Event
  <2>. QED BY <2>1
<1>3. ASSUME NEW s \in Subscribers PROVE stream'[s] \in Stream'
  <2>1. stream[s] \in Stream'
    BY <1>2 DEF Stream
  <2>2. Append(stream[s].queue, event) \in Seq(Event')
    <3>1. stream[s].queue \in Seq(Event')
      BY <2>1 DEF Stream
    <3>. HIDE DEF event
    <3>. QED BY <1>1, <3>1
  <2>3. stream'[s] = stream[s] \/ stream'[s] = [stream[s] EXCEPT !.queue = Append(@, event)]
    BY <1>3 DEF Emit
  <2>. HIDE DEF event
  <2>. QED BY <2>1, <2>2, <2>3 DEF Stream
<1>. QED BY <1>3 DEF Emit

(* _set_status writes to the record that is in the table now, and tells    *)
(* those that are registered for it.                                       *)
LEMMA SetStatusTypes ==
  ASSUME Types, NEW t \in TaskIds, NEW status \in Statuses, SetStatus(t, status)
  PROVE  /\ records' \in Seq(Record)
         /\ DOMAIN records' = DOMAIN records
         /\ \A q \in DOMAIN records : records'[q].task_id = records[q].task_id
         /\ \A q \in DOMAIN records : tasks[t] # q => records'[q] = records[q]
         /\ stream' \in [Subscribers -> Stream']
<1>1. CASE tasks[t] = Absent
  BY <1>1 DEF SetStatus, Types, Stream, Event
<1>2. CASE tasks[t] # Absent
  <2>1. tasks[t] \in DOMAIN records /\ Emit(subs[t], tasks[t], status)
    BY <1>2 DEF Types, SetStatus
  <2>2. records' = [records EXCEPT ![tasks[t]].status = status]
    BY <1>2 DEF SetStatus
  <2>3. /\ records' \in Seq(Record)
        /\ DOMAIN records' = DOMAIN records
        /\ \A q \in DOMAIN records : records'[q].task_id = records[q].task_id
        /\ \A q \in DOMAIN records : tasks[t] # q => records'[q] = records[q]
    <3>1. records[tasks[t]] \in Record
      BY <2>1 DEF Types
    <3>2. [records[tasks[t]] EXCEPT !.status = status] \in Record
      BY <3>1 DEF Record
    <3>3. records' = [records EXCEPT ![tasks[t]] = [records[tasks[t]] EXCEPT !.status = status]]
      BY <2>2
    <3>4. records' \in Seq(Record) /\ DOMAIN records' = DOMAIN records
      BY <2>1, <3>2, <3>3, ExceptSeq DEF Types
    <3>5. records'[tasks[t]].task_id = records[tasks[t]].task_id
      BY <2>1, <3>1, <3>3 DEF Record, Types
    <3>6. \A q \in DOMAIN records : tasks[t] # q => records'[q] = records[q]
      BY <3>3
    <3>. QED BY <3>4, <3>5, <3>6
  <2>4. stream \in [Subscribers -> Stream] /\ DOMAIN records \subseteq DOMAIN records'
    BY <2>3 DEF Types
  <2>5. stream' \in [Subscribers -> Stream']
    BY <2>1, <2>3, <2>4, EmitTypes
  <2>. QED BY <2>3, <2>5
<1>. QED BY <1>1, <1>2

(* Runners can be counted, and so the time they end at is a number.        *)
LEMMA CompletionTypes ==
  ASSUME Types, NEW t \in TaskIds, NEW status, SetStatus(t, status)
  PROVE  completed_at' \in [DOMAIN records -> Nat]
<1>1. Now \in Nat
  <2> DEFINE ended == {r \in DOMAIN runner : runner[r] = "done"}
  <2>1. ended \subseteq 1..Len(records) /\ Len(records) \in Nat
    BY DEF Types
  <2>2. IsFiniteSet(1..Len(records))
    BY <2>1, FS_Interval
  <2>3. Cardinality(ended) \in Nat
    BY <2>1, <2>2, FS_Subset, FS_CardinalityType
  <2>. HIDE DEF ended
  <2>4. 1 + Cardinality(ended) \in Nat
    BY <2>3
  <2>. QED BY <2>4 DEF Now, ended
<1>. QED BY <1>1 DEF SetStatus, Types

(* A runner for each record.                                               *)
LEMMA RunnerIsSeq ==
  ASSUME Types
  PROVE  runner \in Seq({"created", "running", "done"}) /\ Len(runner) = Len(records)
<1>1. runner \in [1..Len(records) -> {"created", "running", "done"}] /\ Len(records) \in Nat
  BY DEF Types
<1>. QED BY <1>1, IsASeq, LenProperties

(* Submitting puts a new record into the table, for an id that is not      *)
(* there, in place of those that are dropped.                              *)
Submitted(t, gone, r) ==
  /\ records' \in Seq(Record)
  /\ DOMAIN records' = DOMAIN records \cup {r} /\ r \notin DOMAIN records
  /\ r # Absent
  /\ records'[r] = [task_id |-> t, status |-> "pending"]
  /\ \A q \in DOMAIN records : records'[q] = records[q]
  /\ DOMAIN runner' = DOMAIN records' /\ runner'[r] = "created"
  /\ \A q \in DOMAIN records : runner'[q] = runner[q]
  /\ tasks' \in [TaskIds -> {Absent} \cup DOMAIN records']
  /\ tasks'[t] = r
  /\ \A u \in TaskIds \ {t} : tasks'[u] = IF u \in gone THEN Absent ELSE tasks[u]
  /\ Known' = (Known \ gone) \cup {t}
  /\ stream' \in [Subscribers -> Stream']

LEMMA SubmitChanges ==
  ASSUME Types, NEW t \in TaskIds, SubmitNew(t),
         NEW gone, gone = (Known \cap expired) \cup Dropped(Known \ expired),
         NEW r, r = Len(records) + 1
  PROVE  Submitted(t, gone, r)
<1> DEFINE new == [task_id |-> t, status |-> "pending"]
<1>. HIDE DEF new
<1>1. /\ records' = Append(records, new)
      /\ runner' = Append(runner, "created")
      /\ tasks' = [u \in TaskIds |-> IF u = t THEN r ELSE IF u \in gone THEN Absent ELSE tasks[u]]
      /\ Emit(subs'[t], r, "pending")
  BY DEF SubmitNew, new
<1>2. records \in Seq(Record) /\ Len(records) \in Nat /\ DOMAIN records = 1..Len(records)
  BY DEF Types
<1>3. new \in Record
  BY DEF new, Record, Statuses
<1>4. /\ records' \in Seq(Record) /\ Len(records') = r
      /\ records'[r] = new
      /\ \A q \in DOMAIN records : records'[q] = records[q]
  BY <1>1, <1>2, <1>3, AppendProperties
<1>5. DOMAIN records' = 1..r
  BY <1>4
<1>6. DOMAIN records' = DOMAIN records \cup {r} /\ r \notin DOMAIN records /\ r # Absent
  BY <1>2, <1>5 DEF Absent
<1>7. runner \in Seq({"created", "running", "done"}) /\ Len(runner) = Len(records)
  BY RunnerIsSeq
<1>8. /\ DOMAIN runner' = DOMAIN records' /\ runner'[r] = "created"
      /\ \A q \in DOMAIN records : runner'[q] = runner[q]
  BY <1>1, <1>2, <1>5, <1>7, AppendProperties, LenProperties
<1>9. /\ tasks' \in [TaskIds -> {Absent} \cup DOMAIN records']
      /\ tasks'[t] = r
      /\ \A u \in TaskIds \ {t} : tasks'[u] = IF u \in gone THEN Absent ELSE tasks[u]
  BY <1>1, <1>6 DEF Types
<1>10. Known' = (Known \ gone) \cup {t}
  BY <1>6, <1>9 DEF Known
<1>11. stream' \in [Subscribers -> Stream']
  <2>1. stream \in [Subscribers -> Stream] /\ DOMAIN records \subseteq DOMAIN records'
        /\ r \in DOMAIN records'
    BY <1>6 DEF Types
  <2>. QED BY <1>1, <2>1, EmitTypes
<1>. QED BY <1>4, <1>6, <1>8, <1>9, <1>10, <1>11 DEF new, Submitted

(* A new record has its runner and its place in the table.                 *)
LEMMA SubmitTypes ==
  ASSUME Types, NEW t \in TaskIds, SubmitNew(t),
         NEW gone, gone = (Known \cap expired) \cup Dropped(Known \ expired),
         NEW r, r = Len(records) + 1
  PROVE  Types'
<1>1. Submitted(t, gone, r)
  BY SubmitChanges
<1>2. records' \in Seq(Record) /\ tasks' \in [TaskIds -> {Absent} \cup DOMAIN records']
      /\ stream' \in [Subscribers -> Stream']
  BY <1>1 DEF Submitted
<1>3. /\ expired' = expired \ (gone \cup {t})
      /\ subs' = [u \in TaskIds |-> IF u \in gone THEN {} ELSE subs[u]]
      /\ runner' = Append(runner, "created")
  BY DEF SubmitNew
<1>4. \A u \in Known' : records'[tasks'[u]].task_id = u
  <2>1. records'[r].task_id = t /\ tasks'[t] = r
    BY <1>1 DEF Submitted
  <2>2. ASSUME NEW u \in Known \ gone, u # t PROVE records'[tasks'[u]].task_id = u
    <3>1. tasks'[u] = tasks[u] /\ tasks[u] \in DOMAIN records
      BY <1>1, <2>2 DEF Submitted, Known, Types
    <3>. QED BY <1>1, <2>2, <3>1 DEF Submitted, Types
  <2>. QED BY <1>1, <2>1, <2>2 DEF Submitted
<1>5. runner' \in [DOMAIN records' -> {"created", "running", "done"}]
  <2>1. \A q \in DOMAIN records' : runner'[q] \in {"created", "running", "done"}
    BY <1>1 DEF Submitted, Types
  <2>2. runner' \in Seq({"created", "running", "done"})
    BY <1>3, RunnerIsSeq, AppendProperties
  <2>3. runner' = [q \in DOMAIN runner' |-> runner'[q]]
    BY <2>2
  <2>. QED BY <1>1, <2>1, <2>3 DEF Submitted
<1>6. expired' \subseteq Known'
  BY <1>1, <1>3 DEF Submitted, Types
<1>7. completed_at' \in [DOMAIN records' -> Nat]
  <2>1. completed_at \in [1..Len(records) -> Nat] /\ Len(records) \in Nat /\ r = Len(records) + 1
    BY DEF Types
  <2>2. completed_at \in Seq(Nat) /\ Len(completed_at) = Len(records)
    BY <2>1, IsASeq, LenProperties
  <2>3. completed_at' \in Seq(Nat) /\ Len(completed_at') = r
    BY <2>1, <2>2, AppendProperties DEF SubmitNew
  <2>4. DOMAIN records' = 1..r
    BY <1>1, <2>1 DEF Submitted, Types
  <2>. QED BY <2>3, <2>4, LenProperties
<1>. QED BY <1>2, <1>3, <1>4, <1>5, <1>6, <1>7 DEF Types

(* Dropping tasks that have expired leaves the others.                     *)
LEMMA DeleteTypes ==
  ASSUME Types, NEW gone,
         tasks' = [u \in TaskIds |-> IF u \in gone THEN Absent ELSE tasks[u]],
         expired' = expired \ gone, subs' \in [TaskIds -> SUBSET Subscribers],
         UNCHANGED <<records, completed_at, runner>>, stream' \in [Subscribers -> Stream]
  PROVE  Types' /\ Known' = Known \ gone
<1>1. Known' = Known \ gone
  BY DEF Types, Known
<1>2. Stream' = Stream
  BY DEF Stream, Event
<1>. QED BY <1>1, <1>2 DEF Types, Known
-----------------------------------------------------------------------------
(* Nothing has been submitted yet.                                         *)
LEMMA InitTypes == Init => Types
<1> SUFFICES ASSUME Init PROVE Types
  OBVIOUS
<1>1. records \in Seq(Record) /\ DOMAIN records = {} /\ runner \in [{} -> {"created", "running", "done"}]
  BY DEF Init
<1>2. tasks \in [TaskIds -> {Absent}] /\ Known = {} /\ expired = {}
  BY DEF Init, Known
<1>3. Unstarted \in Stream
  BY DEF Unstarted, Stream
<1>4. stream \in [Subscribers -> Stream] /\ subs \in [TaskIds -> SUBSET Subscribers]
  BY <1>3 DEF Init
<1>5. completed_at \in [DOMAIN records -> Nat]
  BY <1>1 DEF Init
<1>. QED BY <1>1, <1>2, <1>4, <1>5 DEF Types

(* Every step keeps the types.                                             *)
LEMMA NextTypes == Types /\ [Next]_vars => Types'
<1> SUFFICES ASSUME Types, [Next]_vars PROVE Types'
  OBVIOUS
<1>1. ASSUME NEW t \in TaskIds, SubmitNew(t) PROVE Types'
  BY <1>1, SubmitTypes
<1>2. ASSUME NEW t \in TaskIds, Expire(t) PROVE Types'
  BY <1>2 DEF Expire, Types, Known, Stream, Event
<1>3. CASE CollectExpired
  <2>1. /\ tasks' = [u \in TaskIds |-> IF u \in Known \cap expired THEN Absent ELSE tasks[u]]
        /\ expired' = expired \ (Known \cap expired)
        /\ subs' \in [TaskIds -> SUBSET Subscribers]
        /\ UNCHANGED <<records, completed_at, runner>> /\ stream' \in [Subscribers -> Stream]
    BY <1>3 DEF CollectExpired, Delete, Types
  <2>. QED BY <2>1, DeleteTypes
<1>4. ASSUME NEW r \in DOMAIN records, RunnerStarts(r) \/ RunnerEnds(r) PROVE Types'
  <2>1. PICK status \in Statuses : SetStatus(records[r].task_id, status)
    BY <1>4 DEF RunnerStarts, RunnerEnds, Statuses, Terminal
  <2>2. records[r].task_id \in TaskIds
    <3>1. records[r] \in Record
      BY DEF Types
    <3>. QED BY <3>1 DEF Record
  <2>3. /\ runner' \in [DOMAIN records -> {"created", "running", "done"}]
        /\ UNCHANGED <<tasks, expired, subs>>
    BY <1>4 DEF RunnerStarts, RunnerEnds, Types
  <2>4. /\ records' \in Seq(Record)
        /\ DOMAIN records' = DOMAIN records
        /\ \A q \in DOMAIN records : records'[q].task_id = records[q].task_id
        /\ stream' \in [Subscribers -> Stream']
    BY <2>1, <2>2, SetStatusTypes
  <2>5. completed_at' \in [DOMAIN records -> Nat]
    BY <2>1, <2>2, CompletionTypes
  <2>. QED BY <2>3, <2>4, <2>5 DEF Types, Known
<1>5. ASSUME NEW s \in Subscribers, NEW t \in TaskIds, Subscribe(s, t) PROVE Types'
  <2> DEFINE gone == Known \cap expired
  <2>1. /\ tasks' = [u \in TaskIds |-> IF u \in gone THEN Absent ELSE tasks[u]]
        /\ expired' = expired \ gone
        /\ subs' \in [TaskIds -> SUBSET Subscribers]
        /\ UNCHANGED <<records, completed_at, runner>>
    BY <1>5 DEF Subscribe, Types
  <2>2. PICK loop \in Loops, events \in Filters \cup {{}} :
          stream' = [stream EXCEPT ![s] =
             [Unstarted EXCEPT !.phase = "waiting", !.task_id = t, !.loop = loop,
                               !.events = events, !.queue = FirstEvents(tasks[t])]]
    BY <1>5 DEF Subscribe, Asked
  <2>3. FirstEvents(tasks[t]) \in Seq(Event)
    BY <1>5 DEF Subscribe, Known, Types, FirstEvents, Event, EventFor, EventNames
  <2>4. stream'[s] \in Stream
    BY <2>2, <2>3 DEF Types, Unstarted, Stream
  <2>5. stream' \in [Subscribers -> Stream]
    BY <2>2, <2>4 DEF Types
  <2>. QED BY <2>1, <2>5, DeleteTypes
<1>6. ASSUME NEW s \in Subscribers, Receive(s) PROVE Types'
  <2> DEFINE ev == Head(stream[s].queue)
  <2>0. stream[s] \in Stream /\ stream[s].queue \in Seq(Event) /\ stream[s].queue # <<>>
    BY <1>6 DEF Types, Stream, Receive
  <2>1. ev \in Event /\ Tail(stream[s].queue) \in Seq(Event)
    BY <2>0
  <2>2. Status(ev.record) \in Statuses
    <3>1. ev.record \in DOMAIN records
      BY <2>1 DEF Event
    <3>2. records[ev.record] \in Record
      BY <3>1 DEF Types
    <3>. QED BY <3>2 DEF Record, Status
  <2>3. /\ UNCHANGED <<records, completed_at, tasks, expired, subs, runner>>
        /\ \A q \in Subscribers \ {s} : stream'[q] = stream[q]
        /\ DOMAIN stream' = Subscribers /\ stream' = [q \in Subscribers |-> stream'[q]]
    BY <1>6 DEF Receive, Types
  <2>4. stream'[s] \in Stream
    <3> DEFINE wanted == stream[s].events = {} \/ ev.name \in stream[s].events
               phase == IF wanted THEN "yielded" ELSE "waiting"
               name == IF wanted THEN ev.name ELSE stream[s].name
               record == IF wanted THEN ev.record ELSE stream[s].record
               told == IF wanted THEN Status(ev.record) ELSE stream[s].told
    <3>1. stream'[s] = [stream[s] EXCEPT !.queue = Tail(@), !.phase = phase, !.name = name,
                                         !.record = record, !.told = told]
      BY <1>6 DEF Receive, Types
    <3>2. /\ stream[s].task_id \in TaskIds \cup {Absent} /\ stream[s].loop \in Loops \cup {""}
          /\ stream[s].events \in Filters \cup {{}} /\ stream[s].name \in EventNames \cup {""}
          /\ stream[s].record \in {Absent} \cup DOMAIN records
          /\ stream[s].told \in Statuses \cup {""}
      BY <2>0 DEF Stream
    <3>3. ev.name \in EventNames /\ ev.record \in DOMAIN records
      BY <2>1 DEF Event
    <3>4. /\ phase \in {"idle", "waiting", "yielded", "ended", "gone"} /\ name \in EventNames \cup {""}
          /\ record \in {Absent} \cup DOMAIN records /\ told \in Statuses \cup {""}
      BY <2>2, <3>2, <3>3
    <3>. HIDE DEF ev, wanted, phase, name, record, told
    <3>5. stream'[s] = [phase |-> phase, task_id |-> stream[s].task_id, loop |-> stream[s].loop,
                        events |-> stream[s].events, queue |-> Tail(stream[s].queue),
                        name |-> name, record |-> record, told |-> told]
      BY <2>0, <3>1 DEF Stream
    <3>6. PICK v1 \in {"idle", "waiting", "yielded", "ended", "gone"} : v1 = phase
      BY <3>4
    <3>7. PICK v2 \in TaskIds \cup {Absent}, v3 \in Loops \cup {""}, v4 \in Filters \cup {{}} :
            v2 = stream[s].task_id /\ v3 = stream[s].loop /\ v4 = stream[s].events
      BY <3>2
    <3>8. PICK v5 \in Seq(Event) : v5 = Tail(stream[s].queue)
      BY <2>1
    <3>9. PICK v6 \in EventNames \cup {""}, v7 \in {Absent} \cup DOMAIN records,
               v8 \in Statuses \cup {""} : v6 = name /\ v7 = record /\ v8 = told
      BY <3>4
    <3>10. [phase |-> v1, task_id |-> v2, loop |-> v3, events |-> v4, queue |-> v5,
            name |-> v6, record |-> v7, told |-> v8] \in Stream
      BY DEF Stream
    <3>. QED BY <3>5, <3>6, <3>7, <3>8, <3>9, <3>10
  <2>5. stream' \in [Subscribers -> Stream]
    BY <2>3, <2>4 DEF Types
  <2>. QED BY <2>3, <2>5 DEF Types, Known, Stream, Event
<1>7. ASSUME NEW s \in Subscribers, Resume(s) \/ Disconnect(s) PROVE Types'
  <2>1. UNCHANGED <<records, completed_at, tasks, expired, runner>>
    BY <1>7 DEF Resume, Disconnect
  <2>2. subs' \in [TaskIds -> SUBSET Subscribers]
    <3>1. subs' = subs \/ subs' = [subs EXCEPT ![stream[s].task_id] = @ \ {s}]
      BY <1>7 DEF Resume, Disconnect, Leave
    <3>2. subs \in [TaskIds -> SUBSET Subscribers]
      BY DEF Types
    <3>3. [subs EXCEPT ![stream[s].task_id] = @ \ {s}] \in [TaskIds -> SUBSET Subscribers]
      BY <3>2
    <3>. QED BY <3>1, <3>2, <3>3
  <2>3. stream' \in [Subscribers -> Stream]
    <3>0. stream[s] \in Stream
      BY DEF Types
    <3>1. CASE \E phase \in {"ended", "gone"} : Leave(s, phase)
      <4>1. PICK phase \in {"ended", "gone"} : stream' = [stream EXCEPT ![s] = [Unstarted EXCEPT
              !.phase = phase, !.task_id = stream[s].task_id, !.loop = stream[s].loop,
              !.told = stream[s].told]]
        BY <3>1 DEF Leave
      <4>2. stream'[s] = [Unstarted EXCEPT !.phase = phase, !.task_id = stream[s].task_id,
                                           !.loop = stream[s].loop, !.told = stream[s].told]
        BY <4>1 DEF Types
      <4>3. Unstarted \in Stream
        BY DEF Stream, Unstarted
      <4>4. stream'[s] \in Stream
        BY <3>0, <4>2, <4>3 DEF Stream
      <4>. QED BY <4>1, <4>4 DEF Types
    <3>2. CASE stream' = [stream EXCEPT ![s].phase = "waiting", ![s].name = "", ![s].record = Absent]
      <4>0. stream'[s] = [stream[s] EXCEPT !.phase = "waiting", !.name = "", !.record = Absent]
        BY <3>2 DEF Types
      <4>1. stream'[s] \in Stream
        BY <3>0, <4>0 DEF Stream, Absent
      <4>. QED BY <3>2, <4>1 DEF Types
    <3>. QED BY <1>7, <3>1, <3>2 DEF Resume, Disconnect
  <2>. QED BY <2>1, <2>2, <2>3 DEF Types, Known, Stream, Event
<1>8. CASE UNCHANGED vars
  BY <1>8 DEF vars, Types, Known, Stream, Event
<1>. QED BY <1>1, <1>2, <1>3, <1>4, <1>5, <1>6, <1>7, <1>8 DEF Next

(* The type of every variable.                                             *)
LEMMA TypesHold == Spec => []Types
<1>1. Init => Types
  BY InitTypes
<1>2. Types /\ [Next]_vars => Types'
  BY NextTypes
<1>. QED BY <1>1, <1>2, PTL DEF Spec

(* Records, tasks, registrations and runners refer to one another          *)
(* consistently, whatever is dropped while its runner still works.         *)
THEOREM TypeOKHolds == Spec => []TypeOK
<1>1. Types => TypeOK
  BY DEF Types, TypeOK, Record, Stream
<1>. QED BY <1>1, TypesHold, PTL
-----------------------------------------------------------------------------
(* No orphan queues *)

(* _emit changes nothing but the queues.                                   *)
EmitKept(s) ==
  \E queue \in Seq(Event') : stream'[s] = [stream[s] EXCEPT !.queue = queue]

LEMMA EmitKeeps ==
  ASSUME stream \in [Subscribers -> Stream], NEW receivers, NEW status,
         NEW r \in DOMAIN records', Emit(receivers, r, status),
         DOMAIN records \subseteq DOMAIN records', NEW s \in Subscribers
  PROVE  EmitKept(s)
<1>1. stream'[s].queue \in Seq(Event')
  <2>1. stream' \in [Subscribers -> Stream']
    BY EmitTypes
  <2>2. stream'[s] \in Stream'
    BY <2>1
  <2>. QED BY <2>2 DEF Stream
<1>2. stream'[s] = [stream[s] EXCEPT !.queue = stream'[s].queue]
  <2>0. stream[s] \in Stream
    OBVIOUS
  <2>1. CASE s \in receivers
    <3> DEFINE queue == Append(stream[s].queue, [name |-> EventFor(status), record |-> r])
    <3>1. stream'[s] = [stream[s] EXCEPT !.queue = queue]
      BY <2>1 DEF Emit
    <3>. HIDE DEF queue
    <3>. QED BY <2>0, <3>1 DEF Stream
  <2>2. CASE s \notin receivers
    BY <2>0, <2>2 DEF Emit, Stream
  <2>. QED BY <2>1, <2>2
<1>. QED BY <1>1, <1>2 DEF EmitKept

(* So the phase and the task of every stream stay as they were.            *)
SamePlaces ==
  \A s \in Subscribers : stream'[s].phase = stream[s].phase
                        /\ stream'[s].task_id = stream[s].task_id

LEMMA EmitKeepsPlaces ==
  ASSUME stream \in [Subscribers -> Stream], NEW receivers, NEW status,
         NEW r \in DOMAIN records', Emit(receivers, r, status),
         DOMAIN records \subseteq DOMAIN records'
  PROVE  SamePlaces
<1>1. ASSUME NEW s \in Subscribers
      PROVE  stream'[s].phase = stream[s].phase /\ stream'[s].task_id = stream[s].task_id
  <2>1. EmitKept(s)
    BY EmitKeeps
  <2>2. stream[s] \in Stream
    OBVIOUS
  <2>. QED BY <2>1, <2>2 DEF EmitKept, Stream
<1>. QED BY <1>1 DEF SamePlaces

(* Registrations stay in order when tasks are dropped with their queues.   *)
LEMMA DropKeepsNoOrphans ==
  ASSUME Types, NoOrphanQueues, SamePlaces, NEW gone,
         Known \ gone \subseteq Known',
         subs' = [u \in TaskIds |-> IF u \in gone THEN {} ELSE subs[u]]
  PROVE  NoOrphanQueues'
<1>1. ASSUME NEW u \in TaskIds, NEW s \in subs'[u]
      PROVE  u \in Known' /\ stream'[s].task_id = u /\ stream'[s].phase \in {"waiting", "yielded"}
  <2>1. u \notin gone /\ s \in subs[u] /\ s \in Subscribers
    BY DEF Types
  <2>. QED BY <2>1 DEF NoOrphanQueues, SamePlaces
<1>. QED BY <1>1 DEF NoOrphanQueues

(* A stream takes the event at the head of its queue, and is to send it    *)
(* unless the client did not ask for its name.                             *)
Received(s, ev) ==
  /\ UNCHANGED <<records, completed_at, tasks, expired, subs, runner>>
  /\ DOMAIN stream' = Subscribers
  /\ \A q \in Subscribers \ {s} : stream'[q] = stream[q]
  /\ stream[s].phase = "waiting" /\ stream[s].queue # <<>>
  /\ stream'[s].queue = Tail(stream[s].queue)
  /\ stream'[s].task_id = stream[s].task_id
  /\ stream'[s].loop = stream[s].loop
  /\ stream'[s].events = stream[s].events
  /\ \/ /\ stream'[s].phase = "yielded"
        /\ stream'[s].name = ev.name /\ stream'[s].record = ev.record
        /\ stream'[s].told = Status(ev.record)
     \/ /\ stream'[s].phase = "waiting" /\ stream[s].events # {}
        /\ stream'[s].name = stream[s].name /\ stream'[s].record = stream[s].record
        /\ stream'[s].told = stream[s].told

LEMMA ReceiveChanges ==
  ASSUME Types, NEW s \in Subscribers, Receive(s)
  PROVE  Received(s, Head(stream[s].queue))
<1> DEFINE ev == Head(stream[s].queue)
           wanted == stream[s].events = {} \/ ev.name \in stream[s].events
<1>1. /\ stream[s].phase = "waiting" /\ stream[s].queue # <<>>
      /\ UNCHANGED <<records, completed_at, tasks, expired, subs, runner>>
      /\ DOMAIN stream' = Subscribers
      /\ \A q \in Subscribers \ {s} : stream'[q] = stream[q]
  BY DEF Receive, Types
<1>2. stream'[s] = [stream[s] EXCEPT
        !.queue = Tail(@), !.phase = IF wanted THEN "yielded" ELSE "waiting",
        !.name = IF wanted THEN ev.name ELSE @, !.record = IF wanted THEN ev.record ELSE @,
        !.told = IF wanted THEN Status(ev.record) ELSE @]
  BY DEF Receive, Types
<1>3. stream[s] \in Stream
  BY DEF Types
<1>. HIDE DEF ev
<1>4. CASE wanted
  BY <1>1, <1>2, <1>3, <1>4 DEF Received, Stream, ev
<1>5. CASE ~wanted
  BY <1>1, <1>2, <1>3, <1>5 DEF Received, Stream, ev
<1>. QED BY <1>4, <1>5

LEMMA NoOrphansInductive ==
  ASSUME Types, Types', NoOrphanQueues, [Next]_vars
  PROVE  NoOrphanQueues'
<1>1. ASSUME NEW t \in TaskIds, SubmitNew(t) PROVE NoOrphanQueues'
  <2> DEFINE gone == (Known \cap expired) \cup Dropped(Known \ expired)
             r == Len(records) + 1
  <2>1. Submitted(t, gone, r)
    BY <1>1, SubmitChanges
  <2>2. subs' = [u \in TaskIds |-> IF u \in gone THEN {} ELSE subs[u]] /\ Emit(subs'[t], r, "pending")
    BY <1>1 DEF SubmitNew
  <2>. HIDE DEF gone, r
  <2>3. SamePlaces
    <3>1. r \in DOMAIN records' /\ DOMAIN records \subseteq DOMAIN records'
          /\ stream \in [Subscribers -> Stream]
      BY <2>1 DEF Submitted, Types
    <3>. QED BY <2>2, <3>1, EmitKeepsPlaces
  <2>4. Known \ gone \subseteq Known'
    BY <2>1 DEF Submitted
  <2>. QED BY <2>2, <2>3, <2>4, DropKeepsNoOrphans
<1>2. ASSUME NEW t \in TaskIds, Expire(t) PROVE NoOrphanQueues'
  BY <1>2 DEF Expire, NoOrphanQueues, Known
<1>3. CASE CollectExpired
  <2>1. subs' = [u \in TaskIds |-> IF u \in Known \cap expired THEN {} ELSE subs[u]]
        /\ tasks' = [u \in TaskIds |-> IF u \in Known \cap expired THEN Absent ELSE tasks[u]]
        /\ UNCHANGED stream
    BY <1>3 DEF CollectExpired, Delete
  <2>2. SamePlaces /\ Known \ (Known \cap expired) \subseteq Known'
    BY <2>1 DEF SamePlaces, Known
  <2>. QED BY <2>1, <2>2, DropKeepsNoOrphans
<1>4. ASSUME NEW r \in DOMAIN records, RunnerStarts(r) \/ RunnerEnds(r) PROVE NoOrphanQueues'
  <2>1. PICK status \in Statuses : SetStatus(records[r].task_id, status)
    BY <1>4 DEF RunnerStarts, RunnerEnds, Statuses, Terminal
  <2> DEFINE t == records[r].task_id
  <2>2. t \in TaskIds
    <3>1. records[r] \in Record
      BY DEF Types
    <3>. QED BY <3>1 DEF Record
  <2>3. UNCHANGED <<tasks, expired, subs>>
    BY <1>4 DEF RunnerStarts, RunnerEnds
  <2>. HIDE DEF t
  <2>4. SetStatus(t, status)
    BY <2>1 DEF t
  <2>5. SamePlaces
    <3>1. CASE tasks[t] = Absent
      BY <2>4, <3>1 DEF SetStatus, SamePlaces
    <3>2. CASE tasks[t] # Absent
      <4>1. DOMAIN records' = DOMAIN records
        BY <2>2, <2>4, SetStatusTypes
      <4>2. Emit(subs[t], tasks[t], status) /\ tasks[t] \in DOMAIN records'
        BY <2>2, <2>4, <3>2, <4>1 DEF SetStatus, Types
      <4>3. stream \in [Subscribers -> Stream]
        BY DEF Types
      <4>. QED BY <4>1, <4>2, <4>3, EmitKeepsPlaces
    <3>. QED BY <3>1, <3>2
  <2>6. Known' = Known
    BY <2>3 DEF Known
  <2>. QED BY <2>3, <2>5, <2>6 DEF NoOrphanQueues, SamePlaces, Types
<1>5. ASSUME NEW s \in Subscribers, NEW t \in TaskIds, Subscribe(s, t) PROVE NoOrphanQueues'
  <2> DEFINE gone == Known \cap expired
  <2>1. /\ tasks' = [u \in TaskIds |-> IF u \in gone THEN Absent ELSE tasks[u]]
        /\ subs' = [u \in TaskIds |-> IF u \in gone THEN {}
                                      ELSE IF u = t THEN subs[u] \cup {s} ELSE subs[u]]
        /\ t \in Known \ gone /\ stream[s].phase = "idle"
    BY <1>5 DEF Subscribe
  <2>2. /\ stream'[s].phase = "waiting" /\ stream'[s].task_id = t
        /\ \A q \in Subscribers \ {s} : stream'[q] = stream[q]
    BY <1>5 DEF Subscribe, Types, Unstarted
  <2>3. Known \ gone \subseteq Known'
    BY <2>1 DEF Known
  <2>4. \A u \in TaskIds : s \notin subs[u]
    BY <2>1 DEF NoOrphanQueues
  <2>. HIDE DEF gone
  <2>5. ASSUME NEW u \in TaskIds, NEW q \in subs'[u]
        PROVE  u \in Known' /\ stream'[q].task_id = u /\ stream'[q].phase \in {"waiting", "yielded"}
    <3>1. CASE q = s
      <4>1. u = t
        BY <2>1, <2>4, <3>1
      <4>. QED BY <2>1, <2>2, <2>3, <3>1, <4>1
    <3>2. CASE q # s
      <4>1. u \notin gone /\ q \in subs[u] /\ q \in Subscribers
        BY <2>1, <3>2 DEF Types
      <4>. QED BY <2>2, <2>3, <3>2, <4>1 DEF NoOrphanQueues
    <3>. QED BY <3>1, <3>2
  <2>. QED BY <2>5 DEF NoOrphanQueues
<1>6. ASSUME NEW s \in Subscribers, Receive(s) PROVE NoOrphanQueues'
  <2>1. Received(s, Head(stream[s].queue))
    BY <1>6, ReceiveChanges
  <2>. QED BY <2>1 DEF Received, NoOrphanQueues, Known, Types
<1>7. ASSUME NEW s \in Subscribers, Resume(s) \/ Disconnect(s) PROVE NoOrphanQueues'
  <2>0. UNCHANGED <<records, completed_at, tasks, expired, runner>>
    BY <1>7 DEF Resume, Disconnect
  <2>1. UNCHANGED tasks /\ stream[s] \in Stream /\ Known' = Known
    BY <2>0 DEF Types, Known
  <2>2. CASE \E phase \in {"ended", "gone"} : Leave(s, phase)
    <3>1. /\ subs' = [subs EXCEPT ![stream[s].task_id] = @ \ {s}]
          /\ \A q \in Subscribers \ {s} : stream'[q] = stream[q]
      BY <2>2 DEF Leave, Types
    <3>2. \A u \in TaskIds : s \notin subs'[u]
      BY <3>1 DEF NoOrphanQueues, Types
    <3>3. \A u \in TaskIds : subs'[u] \subseteq subs[u]
      BY <3>1 DEF Types
    <3>. QED BY <2>1, <3>1, <3>2, <3>3 DEF NoOrphanQueues, Types
  <2>3. CASE stream' = [stream EXCEPT ![s].phase = "waiting", ![s].name = "", ![s].record = Absent]
              /\ UNCHANGED subs /\ stream[s].phase = "yielded"
    <3>1. stream'[s] = [stream[s] EXCEPT !.phase = "waiting", !.name = "", !.record = Absent]
          /\ \A q \in Subscribers \ {s} : stream'[q] = stream[q]
      BY <2>3 DEF Types
    <3>2. stream'[s].phase = "waiting" /\ stream'[s].task_id = stream[s].task_id
      BY <2>1, <3>1 DEF Stream
    <3>3. ASSUME NEW u \in TaskIds, NEW q \in subs'[u]
          PROVE  u \in Known' /\ stream'[q].task_id = u /\ stream'[q].phase \in {"waiting", "yielded"}
      <4>1. q \in subs[u] /\ q \in Subscribers
        BY <2>3 DEF Types
      <4>2. u \in Known' /\ stream[q].task_id = u /\ stream[q].phase \in {"waiting", "yielded"}
        BY <2>1, <4>1 DEF NoOrphanQueues
      <4>. QED BY <3>1, <3>2, <4>1, <4>2
    <3>. QED BY <3>3 DEF NoOrphanQueues
  <2>. QED BY <1>7, <2>2, <2>3 DEF Resume, Disconnect
<1>8. CASE UNCHANGED vars
  BY <1>8 DEF vars, NoOrphanQueues, Known
<1>. QED BY <1>1, <1>2, <1>3, <1>4, <1>5, <1>6, <1>7, <1>8 DEF Next

(* A queue is registered only for a task in the table, by a stream that is *)
(* still served: neither eviction nor a client that left leaks one.        *)
THEOREM NoOrphanQueuesHolds == Spec => []NoOrphanQueues
<1>1. Init => NoOrphanQueues
  BY DEF Init, NoOrphanQueues
<1>2. Types /\ Types' /\ NoOrphanQueues /\ [Next]_vars => NoOrphanQueues'
  BY NoOrphansInductive
<1>. QED BY <1>1, <1>2, TypesHold, PTL DEF Spec
-----------------------------------------------------------------------------
(* The table is bounded *)

TableFits == IsFiniteSet(Known) /\ TableBounded

LEMMA OldestExists ==
  ASSUME Types, NEW T, T \subseteq Known, T # {}
  PROVE  Oldest(T) \in T
<1> DEFINE R == {tasks[t] : t \in T}
<1>1. OpToRel(<, Nat) = {pair \in Nat \X Nat : pair[1] < pair[2]}
  BY DEF OpToRel
<1>2. R \subseteq Nat /\ R # {}
  <2>1. \A t \in T : tasks[t] \in DOMAIN records
    BY DEF Types, Known
  <2>2. DOMAIN records \subseteq Nat
    BY DEF Types
  <2>. QED BY <2>1, <2>2
<1>3. PICK least \in R : \A r \in R : ~(<<r, least>> \in OpToRel(<, Nat))
  BY <1>2, WFMin, NatLessThanWellFounded
<1>4. \A r \in R : least <= r
  <2>1. ASSUME NEW r \in R PROVE least <= r
    <3>1. r \in Nat /\ least \in Nat
      BY <1>2
    <3>2. ~(r < least)
      BY <1>1, <1>3, <3>1
    <3>. HIDE DEF R
    <3>. QED BY <3>1, <3>2
  <2>. QED BY <2>1
<1>5. PICK t \in T : tasks[t] = least
  OBVIOUS
<1>6. \A u \in T : tasks[t] <= tasks[u]
  BY <1>4, <1>5
<1>. QED BY <1>6 DEF Oldest

(* What submit leaves of the live tasks has room for one more.             *)
LEMMA DroppedMakesRoom ==
  ASSUME Types, NEW live, live \subseteq Known, IsFiniteSet(live), Cardinality(live) <= MaxTasks
  PROVE  /\ IsFiniteSet(live \ Dropped(live))
         /\ Cardinality(live \ Dropped(live)) < MaxTasks
<1>1. MaxTasks \in Nat \ {0}
  BY TaskManagerAssumption
<1>2. Cardinality(live) \in Nat
  BY FS_CardinalityType
<1>3. CASE Cardinality(live) < MaxTasks
  <2>1. live \ Dropped(live) = live
    BY <1>3 DEF Dropped
  <2>. QED BY <1>3, <2>1
<1>4. CASE ~(Cardinality(live) < MaxTasks)
  <2> DEFINE left == live \ Surplus(live)
  <2>1. live \ Dropped(live) = IF Cardinality(left) >= MaxTasks THEN left \ {Oldest(left)} ELSE left
    BY <1>4 DEF Dropped
  <2>2. left \subseteq live
    OBVIOUS
  <2>. HIDE DEF left
  <2>3. IsFiniteSet(left) /\ Cardinality(left) \in Nat /\ Cardinality(left) <= Cardinality(live)
    BY <2>2, FS_Subset, FS_CardinalityType
  <2>4. CASE Cardinality(left) >= MaxTasks
    <3>1. left # {}
      <4>1. Cardinality(left) # 0
        BY <1>1, <2>3, <2>4
      <4>. QED BY <4>1, FS_EmptySet
    <3>2. Oldest(left) \in left
      BY <2>2, <3>1, OldestExists
    <3>3. IsFiniteSet(left \ {Oldest(left)})
          /\ Cardinality(left \ {Oldest(left)}) = Cardinality(left) - 1
      BY <2>3, <3>2, FS_RemoveElement
    <3>. QED BY <1>1, <1>2, <2>1, <2>3, <2>4, <3>3
  <2>5. CASE ~(Cardinality(left) >= MaxTasks)
    BY <1>1, <2>1, <2>3, <2>5
  <2>. QED BY <2>4, <2>5
<1>. QED BY <1>3, <1>4

(* Fewer tasks fit as well.                                                *)
LEMMA FewerFit ==
  ASSUME TableFits, Known' \subseteq Known
  PROVE  TableFits'
<1>1. IsFiniteSet(Known') /\ Cardinality(Known') <= Cardinality(Known)
  BY FS_Subset DEF TableFits
<1>2. Cardinality(Known) \in Nat /\ Cardinality(Known') \in Nat /\ MaxTasks \in Nat
  BY <1>1, FS_CardinalityType, TaskManagerAssumption DEF TableFits
<1>. QED BY <1>1, <1>2 DEF TableFits, TableBounded

LEMMA TableFitsInductive ==
  ASSUME Types, TableFits, [Next]_vars
  PROVE  TableFits'
<1>1. ASSUME NEW t \in TaskIds, SubmitNew(t) PROVE TableFits'
  <2> DEFINE live == Known \ expired
             gone == (Known \cap expired) \cup Dropped(live)
             r == Len(records) + 1
  <2>1. Submitted(t, gone, r)
    BY <1>1, SubmitChanges
  <2>2. Known' = (live \ Dropped(live)) \cup {t}
    BY <2>1 DEF Submitted
  <2>3. live \subseteq Known
    OBVIOUS
  <2>. HIDE DEF live
  <2>4. /\ IsFiniteSet(live) /\ Cardinality(live) <= Cardinality(Known)
        /\ Cardinality(live) \in Nat /\ Cardinality(Known) \in Nat
    BY <2>3, FS_Subset, FS_CardinalityType DEF TableFits
  <2>5. Cardinality(live) <= MaxTasks /\ MaxTasks \in Nat
    BY <2>4, TaskManagerAssumption DEF TableFits, TableBounded
  <2> DEFINE rest == live \ Dropped(live)
  <2>6. IsFiniteSet(rest) /\ Cardinality(rest) < MaxTasks
    BY <2>3, <2>4, <2>5, DroppedMakesRoom
  <2>. HIDE DEF rest
  <2>7. Cardinality(rest) \in Nat
    BY <2>6, FS_CardinalityType
  <2>8. /\ IsFiniteSet(rest \cup {t})
        /\ Cardinality(rest \cup {t}) = Cardinality(rest) \/ Cardinality(rest \cup {t}) = Cardinality(rest) + 1
    BY <2>6, FS_AddElement
  <2>9. Known' = rest \cup {t}
    BY <2>2 DEF rest
  <2>. QED BY <2>5, <2>6, <2>7, <2>8, <2>9 DEF TableFits, TableBounded
<1>2. ASSUME NEW t \in TaskIds, Expire(t) PROVE TableFits'
  <2>1. Known' \subseteq Known
    BY <1>2 DEF Expire, Known
  <2>. QED BY <2>1, FewerFit
<1>3. CASE CollectExpired
  <2>1. tasks' = [u \in TaskIds |-> IF u \in Known \cap expired THEN Absent ELSE tasks[u]]
    BY <1>3 DEF CollectExpired, Delete
  <2>2. Known' \subseteq Known
    BY <2>1 DEF Known
  <2>. QED BY <2>2, FewerFit
<1>4. ASSUME NEW s \in Subscribers, NEW t \in TaskIds, Subscribe(s, t) PROVE TableFits'
  <2>1. tasks' = [u \in TaskIds |-> IF u \in Known \cap expired THEN Absent ELSE tasks[u]]
    BY <1>4 DEF Subscribe
  <2>2. Known' \subseteq Known
    BY <2>1 DEF Known
  <2>. QED BY <2>2, FewerFit
<1>5. CASE UNCHANGED tasks
  <2>1. Known' \subseteq Known
    BY <1>5 DEF Known
  <2>. QED BY <2>1, FewerFit
<1>6. UNCHANGED vars => UNCHANGED tasks
  BY DEF vars
<1>7. ASSUME NEW r \in DOMAIN records, RunnerStarts(r) \/ RunnerEnds(r) PROVE UNCHANGED tasks
  BY <1>7 DEF RunnerStarts, RunnerEnds
<1>8. ASSUME NEW s \in Subscribers, Receive(s) \/ Resume(s) \/ Disconnect(s) PROVE UNCHANGED tasks
  BY <1>8 DEF Receive, Resume, Disconnect
<1>. QED BY <1>1, <1>2, <1>3, <1>4, <1>5, <1>6, <1>7, <1>8 DEF Next

(* However submissions, expiry and evictions fall, the table never holds   *)
(* more than max_tasks tasks.                                              *)
THEOREM TableBoundedHolds == Spec => []TableBounded
<1>1. Init => TableFits
  <2>1. Init => Known = {}
    BY DEF Init, Known
  <2>2. IsFiniteSet({}) /\ Cardinality({}) = 0
    BY FS_EmptySet
  <2>. QED BY <2>1, <2>2, TaskManagerAssumption DEF TableFits, TableBounded
<1>2. Types /\ TableFits /\ [Next]_vars => TableFits'
  BY TableFitsInductive
<1>3. TableFits => TableBounded
  BY DEF TableFits
<1>. QED BY <1>1, <1>2, <1>3, TypesHold, PTL DEF Spec
-----------------------------------------------------------------------------
(* Active tasks are dropped last *)

(* Some finished task is the first to have finished: no other is older.    *)
LEMMA FirstFinishedExists ==
  ASSUME Types, NEW done, done \subseteq Known, done # {}
  PROVE  \E t \in done : \A u \in done : ~(completed_at[tasks[u]] < completed_at[tasks[t]])
<1> DEFINE Times == {completed_at[tasks[t]] : t \in done}
<1>1. OpToRel(<, Nat) = {pair \in Nat \X Nat : pair[1] < pair[2]}
  BY DEF OpToRel
<1>2. Times \subseteq Nat /\ Times # {}
  BY DEF Types, Known
<1>3. PICK least \in Times : \A n \in Times : ~(<<n, least>> \in OpToRel(<, Nat))
  BY <1>2, WFMin, NatLessThanWellFounded
<1>4. \A n \in Times : ~(n < least)
  BY <1>1, <1>2, <1>3
<1>5. PICK t \in done : completed_at[tasks[t]] = least
  OBVIOUS
<1>. QED BY <1>4, <1>5

(* A full table in which some task has finished has a task too many.       *)
LEMMA FinishedAreSurplus ==
  ASSUME Types, NEW live, live \subseteq Known, Cardinality(live) = MaxTasks,
         NEW d \in live, Status(tasks[d]) \in Terminal
  PROVE  Surplus(live) # {}
<1> DEFINE done == {t \in live : Status(tasks[t]) \in Terminal}
           older(t) == {u \in done : completed_at[tasks[u]] < completed_at[tasks[t]]}
           excess == Cardinality(live) - (MaxTasks * 9) \div 10
<1>1. 0 < excess
  BY TaskManagerAssumption
<1>2. done # {} /\ done \subseteq Known
  OBVIOUS
<1>3. Surplus(live) = {t \in done : Cardinality(older(t)) < excess}
  BY DEF Surplus
<1>. HIDE DEF done, excess
<1>4. PICK t \in done : \A u \in done : ~(completed_at[tasks[u]] < completed_at[tasks[t]])
  BY <1>2, FirstFinishedExists
<1>5. older(t) = {}
  BY <1>4
<1>6. Cardinality(older(t)) = 0
  BY <1>5, FS_EmptySet
<1>. HIDE DEF older
<1>. QED BY <1>1, <1>3, <1>4, <1>6

(* Submit drops an unfinished task only as the oldest of a full table of   *)
(* such tasks.                                                             *)
LEMMA ActiveIsDropped ==
  ASSUME Types, NEW live, live \subseteq Known, IsFiniteSet(live), Cardinality(live) <= MaxTasks,
         NEW t \in Dropped(live), Status(tasks[t]) \notin Terminal
  PROVE  /\ Cardinality(live) = MaxTasks
         /\ t = Oldest(live)
         /\ \A u \in live : Status(tasks[u]) \notin Terminal
<1>1. MaxTasks \in Nat \ {0} /\ Cardinality(live) \in Nat
  BY TaskManagerAssumption, FS_CardinalityType
<1>2. ~(Cardinality(live) < MaxTasks)
  BY DEF Dropped
<1>3. Cardinality(live) = MaxTasks
  BY <1>1, <1>2
<1> DEFINE left == live \ Surplus(live)
<1>4. t \notin Surplus(live)
  BY DEF Surplus
<1>5. t = Oldest(left) /\ Cardinality(left) >= MaxTasks
  BY <1>2, <1>4 DEF Dropped
<1>6. left \subseteq live
  OBVIOUS
<1>7. left = live
  <2>. HIDE DEF left
  <2>1. Cardinality(left) \in Nat /\ Cardinality(left) <= Cardinality(live)
    BY <1>6, FS_Subset, FS_CardinalityType
  <2>2. Cardinality(left) = Cardinality(live)
    BY <1>1, <1>3, <1>5, <2>1
  <2>. QED BY <1>6, <2>2, FS_Subset
<1>8. Surplus(live) = {}
  <2>1. Surplus(live) \subseteq live
    BY DEF Surplus
  <2>. QED BY <1>7, <2>1
<1>9. \A u \in live : Status(tasks[u]) \notin Terminal
  BY <1>3, <1>8, FinishedAreSurplus
<1>. QED BY <1>3, <1>5, <1>7, <1>9

LEMMA DroppedLastStep ==
  ASSUME Types, TableFits, [Next]_vars
  PROVE  \A t \in Active \ expired :
           tasks'[t] # tasks[t] =>
             /\ Cardinality(Active \ expired) = MaxTasks
             /\ t = Oldest(Active \ expired)
             /\ Len(records') > Len(records)
<1>. SUFFICES ASSUME NEW t \in Active \ expired, tasks'[t] # tasks[t]
              PROVE  /\ Cardinality(Active \ expired) = MaxTasks
                     /\ t = Oldest(Active \ expired)
                     /\ Len(records') > Len(records)
  OBVIOUS
<1>0. t \in Known /\ t \in TaskIds /\ t \notin expired /\ Status(tasks[t]) \notin Terminal
  BY DEF Active, Known
<1>1. ASSUME NEW new \in TaskIds, SubmitNew(new) PROVE t # new /\ t \in Dropped(Known \ expired)
  BY <1>0, <1>1 DEF SubmitNew
<1>2. ASSUME NEW new \in TaskIds, SubmitNew(new)
      PROVE  /\ Cardinality(Active \ expired) = MaxTasks
             /\ t = Oldest(Active \ expired)
             /\ Len(records') > Len(records)
  <2> DEFINE live == Known \ expired
  <2>1. live \subseteq Known /\ t \in Dropped(live)
    BY <1>1, <1>2
  <2>2. Active \ expired = {u \in live : Status(tasks[u]) \notin Terminal}
    BY DEF Active
  <2>. HIDE DEF live
  <2>3. IsFiniteSet(live) /\ Cardinality(live) <= Cardinality(Known)
        /\ Cardinality(live) \in Nat /\ Cardinality(Known) \in Nat
    BY <2>1, FS_Subset, FS_CardinalityType DEF TableFits
  <2>4. Cardinality(live) <= MaxTasks
    BY <2>3, TaskManagerAssumption DEF TableFits, TableBounded
  <2>5. /\ Cardinality(live) = MaxTasks
        /\ t = Oldest(live)
        /\ \A u \in live : Status(tasks[u]) \notin Terminal
    BY <1>0, <2>1, <2>3, <2>4, ActiveIsDropped
  <2>6. Active \ expired = live
    BY <2>2, <2>5
  <2>7. Len(records') = Len(records) + 1 /\ Len(records) \in Nat
    BY <1>2 DEF SubmitNew, Types
  <2>8. Cardinality(Active \ expired) = MaxTasks /\ t = Oldest(Active \ expired)
    BY <2>5, <2>6, Zenon
  <2>. QED BY <2>7, <2>8
<1>3. ASSUME NEW u \in TaskIds, Expire(u) PROVE FALSE
  BY <1>3 DEF Expire
<1>4. ASSUME CollectExpired PROVE FALSE
  BY <1>0, <1>4 DEF CollectExpired, Delete
<1>5. ASSUME NEW s \in Subscribers, NEW u \in TaskIds, Subscribe(s, u) PROVE FALSE
  BY <1>0, <1>5 DEF Subscribe
<1>6. ~UNCHANGED vars
  BY DEF vars
<1>7. ASSUME NEW r \in DOMAIN records, RunnerStarts(r) \/ RunnerEnds(r) PROVE FALSE
  BY <1>7 DEF RunnerStarts, RunnerEnds
<1>8. ASSUME NEW s \in Subscribers, Receive(s) \/ Resume(s) \/ Disconnect(s) PROVE FALSE
  BY <1>8 DEF Receive, Resume, Disconnect
<1>. QED BY <1>2, <1>3, <1>4, <1>5, <1>6, <1>7, <1>8 DEF Next

(* A task that has neither expired nor finished is dropped only as the     *)
(* oldest one, by a submit that found the table full of such tasks.        *)
THEOREM ActiveTasksDroppedLastHolds == Spec => ActiveTasksDroppedLast
<1>1. Init => TableFits
  <2>1. Init => Known = {}
    BY DEF Init, Known
  <2>2. IsFiniteSet({}) /\ Cardinality({}) = 0
    BY FS_EmptySet
  <2>. QED BY <2>1, <2>2, TaskManagerAssumption DEF TableFits, TableBounded
<1>2. Types /\ TableFits /\ [Next]_vars => TableFits'
  BY TableFitsInductive
<1>3. Types /\ TableFits /\ [Next]_vars =>
        [\A t \in Active \ expired :
           tasks'[t] # tasks[t] =>
             /\ Cardinality(Active \ expired) = MaxTasks
             /\ t = Oldest(Active \ expired)
             /\ Len(records') > Len(records)]_vars
  BY DroppedLastStep
<1>. QED BY <1>1, <1>2, <1>3, TypesHold, PTL DEF Spec, ActiveTasksDroppedLast
-----------------------------------------------------------------------------
(* Waiting streams are up to date *)

(* What is queued for and was told to a stream registered for t is about   *)
(* the record that t has in the table; with nothing queued, the client has *)
(* been told its status, and the loop has not overlooked a final one.      *)
UpToDate(t, s) ==
  /\ \A i \in DOMAIN stream[s].queue : stream[s].queue[i].record = tasks[t]
  /\ stream[s].phase = "yielded" => stream[s].record = tasks[t]
  /\ stream[s].loop \in {"task_subscribe", "stream"}
  /\ stream[s].events = {} /\ stream[s].queue = <<>> =>
       /\ stream[s].told = Status(tasks[t])
       /\ stream[s].phase = "waiting" => stream[s].told \notin Terminal

Current == \A t \in TaskIds : \A s \in subs[t] : UpToDate(t, s)

LEMMA StaysUpToDate ==
  ASSUME NEW t, NEW s, UpToDate(t, s), stream'[s] = stream[s], tasks'[t] = tasks[t],
         records'[tasks[t]] = records[tasks[t]]
  PROVE  UpToDate(t, s)'
BY DEF UpToDate, Status

(* _emit, one stream at a time.                                            *)
LEMMA EmitAppends ==
  ASSUME stream \in [Subscribers -> Stream], NEW receivers, NEW status, NEW r,
         Emit(receivers, r, status), NEW s \in Subscribers,
         NEW event, event = [name |-> EventFor(status), record |-> r]
  PROVE  /\ s \notin receivers => stream'[s] = stream[s]
         /\ s \in receivers =>
              /\ stream'[s] = [stream[s] EXCEPT !.queue = Append(stream[s].queue, event)]
              /\ stream'[s].queue = Append(stream[s].queue, event)
<1>1. stream[s] \in Stream
  OBVIOUS
<1>2. s \in receivers => stream'[s] = [stream[s] EXCEPT !.queue = Append(stream[s].queue, event)]
  BY DEF Emit
<1>. QED BY <1>1, <1>2 DEF Emit, Stream

(* Nobody is registered for a task that submit creates.                    *)
LEMMA SubmitTellsNobody ==
  ASSUME Types, NoOrphanQueues, NEW t \in TaskIds, SubmitNew(t)
  PROVE  subs'[t] = {} /\ UNCHANGED stream
<1>1. subs'[t] = {}
  <2>1. t \in Known => t \in expired
    BY DEF SubmitNew
  <2>2. t \notin Known => subs[t] = {}
    BY DEF NoOrphanQueues
  <2>. QED BY <2>1, <2>2 DEF SubmitNew
<1>2. Emit({}, Len(records) + 1, "pending")
  BY <1>1 DEF SubmitNew
<1>. QED BY <1>1, <1>2 DEF Emit, Types

LEMMA SetStatusKeepsCurrent ==
  ASSUME Types, NoOrphanQueues, Current, NEW t \in TaskIds, NEW status \in Statuses,
         SetStatus(t, status), UNCHANGED <<tasks, subs>>
  PROVE  Current'
<1>1. CASE tasks[t] = Absent
  BY <1>1 DEF SetStatus, Current, UpToDate, Status
<1>2. CASE tasks[t] # Absent
  <2> DEFINE event == [name |-> EventFor(status), record |-> tasks[t]]
  <2>1. Emit(subs[t], tasks[t], status) /\ stream \in [Subscribers -> Stream]
    BY <1>2 DEF SetStatus, Types
  <2>2. ASSUME NEW u \in TaskIds, NEW s \in subs'[u] PROVE UpToDate(u, s)'
    <3>1. s \in subs[u] /\ s \in Subscribers /\ stream[s].task_id = u /\ UpToDate(u, s)
      BY <2>2 DEF Types, NoOrphanQueues, Current
    <3>2. CASE u = t
      <4>1. stream'[s] = [stream[s] EXCEPT !.queue = Append(stream[s].queue, event)]
            /\ stream'[s].queue = Append(stream[s].queue, event)
        BY <2>1, <3>1, <3>2, EmitAppends
      <4>2. stream[s] \in Stream
        BY <2>1, <3>1
      <4>3. stream[s].queue \in Seq(Event)
        BY <4>2 DEF Stream
      <4>4. event.record = tasks[t]
        OBVIOUS
      <4>. HIDE DEF event
      <4>5. stream'[s].queue # <<>>
        BY <4>1, <4>3
      <4>6. \A i \in DOMAIN stream'[s].queue : stream'[s].queue[i].record = tasks[t]
        BY <3>1, <3>2, <4>1, <4>3, <4>4 DEF UpToDate
      <4>7. stream'[s].phase = stream[s].phase /\ stream'[s].record = stream[s].record
            /\ stream'[s].loop = stream[s].loop
        BY <4>1, <4>2 DEF Stream
      <4>. QED BY <3>1, <3>2, <4>5, <4>6, <4>7 DEF UpToDate
    <3>3. CASE u # t
      <4>1. s \notin subs[t]
        BY <3>1, <3>3 DEF NoOrphanQueues
      <4>2. stream'[s] = stream[s]
        BY <2>1, <3>1, <4>1, EmitAppends
      <4>3. u \in Known /\ t \in Known
        BY <1>2, <3>1 DEF NoOrphanQueues, Known
      <4>4. tasks[u] # tasks[t] /\ tasks[u] \in DOMAIN records
        BY <3>3, <4>3 DEF Types, Known
      <4>5. records'[tasks[u]] = records[tasks[u]]
        BY <4>4, SetStatusTypes
      <4>. QED BY <3>1, <4>2, <4>5, StaysUpToDate
    <3>. QED BY <3>2, <3>3
  <2>. QED BY <2>2 DEF Current
<1>. QED BY <1>1, <1>2

LEMMA ReceiveKeepsCurrent ==
  ASSUME Types, NoOrphanQueues, Current, NEW s \in Subscribers, NEW ev,
         ev = Head(stream[s].queue), Received(s, ev)
  PROVE  Current'
<1>1. ASSUME NEW t \in TaskIds, NEW q \in subs'[t] PROVE UpToDate(t, q)'
  <2>1. q \in subs[t] /\ q \in Subscribers /\ UpToDate(t, q)
    BY DEF Received, Types, Current
  <2>2. CASE q # s
    BY <2>1, <2>2, StaysUpToDate DEF Received
  <2>3. CASE q = s
    <3>1. stream[s].queue \in Seq(Event) /\ stream[s].queue # <<>>
      <4>1. stream[s] \in Stream
        BY DEF Types
      <4>. QED BY <4>1 DEF Stream, Received
    <3>2. ev.record = tasks[t]
      BY <2>1, <2>3, <3>1 DEF UpToDate
    <3>3. \A i \in DOMAIN Tail(stream[s].queue) : Tail(stream[s].queue)[i].record = tasks[t]
      BY <2>1, <2>3, <3>1 DEF UpToDate
    <3>. QED BY <2>1, <2>3, <3>2, <3>3 DEF Received, UpToDate, Status
  <2>. QED BY <2>2, <2>3
<1>. QED BY <1>1 DEF Current

(* Deleting tasks with their queues leaves the other registrations alone.  *)
LEMMA DropKeepsCurrent ==
  ASSUME Types, Current, NEW gone, UNCHANGED <<records, stream>>,
         \A u \in TaskIds \ gone : tasks'[u] = tasks[u],
         subs' = [u \in TaskIds |-> IF u \in gone THEN {} ELSE subs[u]]
  PROVE  Current'
<1>1. ASSUME NEW u \in TaskIds, NEW s \in subs'[u] PROVE UpToDate(u, s)'
  <2>1. u \notin gone /\ s \in subs[u]
    OBVIOUS
  <2>2. UpToDate(u, s) /\ tasks'[u] = tasks[u]
    BY <2>1 DEF Current
  <2>. QED BY <2>2, StaysUpToDate
<1>. QED BY <1>1 DEF Current

LEMMA CurrentInductive ==
  ASSUME Types, NoOrphanQueues, Current, [Next]_vars
  PROVE  Current'
<1>1. ASSUME NEW t \in TaskIds, SubmitNew(t) PROVE Current'
  <2> DEFINE gone == (Known \cap expired) \cup Dropped(Known \ expired)
             r == Len(records) + 1
  <2>1. Submitted(t, gone, r)
    BY <1>1, SubmitChanges
  <2>2. subs' = [u \in TaskIds |-> IF u \in gone THEN {} ELSE subs[u]]
    BY <1>1 DEF SubmitNew
  <2>3. UNCHANGED stream /\ subs'[t] = {}
    BY <1>1, SubmitTellsNobody
  <2>. HIDE DEF gone, r
  <2>4. ASSUME NEW u \in TaskIds, NEW s \in subs'[u] PROVE UpToDate(u, s)'
    <3>1. u # t /\ u \notin gone /\ s \in subs[u]
      BY <2>2, <2>3, <2>4
    <3>2. UpToDate(u, s) /\ tasks'[u] = tasks[u]
      BY <2>1, <3>1 DEF Current, Submitted
    <3>3. tasks[u] \in DOMAIN records
      BY <3>1 DEF NoOrphanQueues, Known, Types
    <3>4. records'[tasks[u]] = records[tasks[u]]
      BY <2>1, <3>3 DEF Submitted
    <3>. QED BY <2>3, <3>2, <3>4, StaysUpToDate
  <2>. QED BY <2>4 DEF Current
<1>2. ASSUME NEW t \in TaskIds, Expire(t) PROVE Current'
  BY <1>2 DEF Expire, Current, UpToDate, Status
<1>3. CASE CollectExpired
  <2>1. /\ \A u \in TaskIds \ (Known \cap expired) : tasks'[u] = tasks[u]
        /\ subs' = [u \in TaskIds |-> IF u \in Known \cap expired THEN {} ELSE subs[u]]
        /\ UNCHANGED <<records, stream>>
    BY <1>3 DEF CollectExpired, Delete
  <2>. QED BY <2>1, DropKeepsCurrent
<1>4. ASSUME NEW r \in DOMAIN records, RunnerStarts(r) \/ RunnerEnds(r) PROVE Current'
  <2>1. PICK status \in Statuses : SetStatus(records[r].task_id, status)
    BY <1>4 DEF RunnerStarts, RunnerEnds, Statuses, Terminal
  <2>2. records[r].task_id \in TaskIds
    <3>1. records[r] \in Record
      BY DEF Types
    <3>. QED BY <3>1 DEF Record
  <2>3. UNCHANGED <<tasks, subs>>
    BY <1>4 DEF RunnerStarts, RunnerEnds
  <2>. QED BY <2>1, <2>2, <2>3, SetStatusKeepsCurrent
<1>5. ASSUME NEW s \in Subscribers, NEW t \in TaskIds, Subscribe(s, t) PROVE Current'
  <2> DEFINE gone == Known \cap expired
  <2>1. /\ \A u \in TaskIds \ gone : tasks'[u] = tasks[u]
        /\ subs' = [u \in TaskIds |-> IF u \in gone THEN {}
                                      ELSE IF u = t THEN subs[u] \cup {s} ELSE subs[u]]
        /\ t \in TaskIds \ gone /\ stream[s].phase = "idle" /\ UNCHANGED records
    BY <1>5 DEF Subscribe
  <2>. HIDE DEF gone
  <2>2. \A u \in TaskIds : s \notin subs[u]
    BY <2>1 DEF NoOrphanQueues
  <2>3. /\ stream'[s].phase = "waiting" /\ stream'[s].queue = FirstEvents(tasks[t])
        /\ stream'[s].loop \in Loops
        /\ \A q \in Subscribers \ {s} : stream'[q] = stream[q]
    BY <1>5 DEF Subscribe, Types, Unstarted
  <2>4. ASSUME NEW u \in TaskIds, NEW q \in subs'[u] PROVE UpToDate(u, q)'
    <3>1. CASE q = s
      <4>1. u = t /\ tasks'[u] = tasks[t]
        BY <2>1, <2>2, <3>1
      <4>2. /\ stream'[s].queue # <<>>
            /\ \A i \in DOMAIN stream'[s].queue : stream'[s].queue[i].record = tasks[t]
        BY <2>3 DEF FirstEvents
      <4>. QED BY <2>3, <3>1, <4>1, <4>2, TaskManagerAssumption DEF UpToDate
    <3>2. CASE q # s
      <4>1. u \notin gone /\ q \in subs[u] /\ q \in Subscribers
        BY <2>1, <3>2 DEF Types
      <4>2. UpToDate(u, q) /\ stream'[q] = stream[q] /\ tasks'[u] = tasks[u] /\ UNCHANGED records
        BY <2>1, <2>3, <3>2, <4>1 DEF Current
      <4>. QED BY <4>2, StaysUpToDate
    <3>. QED BY <3>1, <3>2
  <2>. QED BY <2>4 DEF Current
<1>6. ASSUME NEW s \in Subscribers, Receive(s) PROVE Current'
  BY <1>6, ReceiveChanges, ReceiveKeepsCurrent
<1>7. ASSUME NEW s \in Subscribers, Resume(s) \/ Disconnect(s) PROVE Current'
  <2>0. UNCHANGED <<records, completed_at, tasks, expired, runner>>
    BY <1>7 DEF Resume, Disconnect
  <2>1. stream[s] \in Stream
    BY DEF Types
  <2>2. CASE \E phase \in {"ended", "gone"} : Leave(s, phase)
    <3>1. /\ subs' = [subs EXCEPT ![stream[s].task_id] = @ \ {s}]
          /\ \A q \in Subscribers \ {s} : stream'[q] = stream[q]
      BY <2>2 DEF Leave, Types
    <3>2. ASSUME NEW u \in TaskIds, NEW q \in subs'[u] PROVE UpToDate(u, q)'
      <4>1. q # s /\ q \in subs[u] /\ q \in Subscribers
        BY <3>1 DEF NoOrphanQueues, Types
      <4>2. UpToDate(u, q)
        BY <4>1 DEF Current
      <4>. QED BY <2>0, <3>1, <4>1, <4>2, StaysUpToDate
    <3>. QED BY <3>2 DEF Current
  <2>3. CASE stream' = [stream EXCEPT ![s].phase = "waiting", ![s].name = "", ![s].record = Absent]
              /\ UNCHANGED subs /\ stream[s].phase = "yielded" /\ ~Finished(s)
    <3>1. stream'[s] = [stream[s] EXCEPT !.phase = "waiting", !.name = "", !.record = Absent]
          /\ \A q \in Subscribers \ {s} : stream'[q] = stream[q]
      BY <2>3 DEF Types
    <3>2. /\ stream'[s].phase = "waiting" /\ stream'[s].queue = stream[s].queue
          /\ stream'[s].loop = stream[s].loop /\ stream'[s].events = stream[s].events
          /\ stream'[s].told = stream[s].told
      BY <2>1, <3>1 DEF Stream
    <3>3. ASSUME NEW u \in TaskIds, NEW q \in subs'[u] PROVE UpToDate(u, q)'
      <4>1. q \in subs[u] /\ q \in Subscribers
        BY <2>3 DEF Types
      <4>2. UpToDate(u, q)
        BY <4>1 DEF Current
      <4>3. CASE q # s
        BY <2>0, <3>1, <4>1, <4>2, <4>3, StaysUpToDate
      <4>4. CASE q = s
        <5>1. /\ \A i \in DOMAIN stream[s].queue : stream[s].queue[i].record = tasks[u]
              /\ stream[s].record = tasks[u]
              /\ stream[s].loop \in {"task_subscribe", "stream"}
              /\ stream[s].events = {} /\ stream[s].queue = <<>> => stream[s].told = Status(tasks[u])
          BY <2>3, <4>2, <4>4 DEF UpToDate
        <5>2. ASSUME stream[s].events = {}, stream[s].queue = <<>> PROVE stream[s].told \notin Terminal
          BY <2>3, <5>1, <5>2 DEF Finished
        <5>3. Status(tasks[u])' = Status(tasks[u])
          BY <2>0 DEF Status
        <5>. QED BY <2>0, <3>2, <4>4, <5>1, <5>2, <5>3 DEF UpToDate
      <4>. QED BY <4>3, <4>4
    <3>. QED BY <3>3 DEF Current
  <2>. QED BY <1>7, <2>2, <2>3 DEF Resume, Disconnect
<1>8. CASE UNCHANGED vars
  BY <1>8 DEF vars, Current, UpToDate, Status
<1>. QED BY <1>1, <1>2, <1>3, <1>4, <1>5, <1>6, <1>7, <1>8 DEF Next

(* A stream is served for a task.                                          *)
Named == \A s \in Subscribers : stream[s].phase # "idle" => stream[s].task_id \in TaskIds

LEMMA NamedInductive ==
  ASSUME Types, NoOrphanQueues, Named, [Next]_vars
  PROVE  Named'
<1>1. ASSUME NEW t \in TaskIds, SubmitNew(t) PROVE Named'
  BY <1>1, SubmitTellsNobody DEF Named
<1>2. ASSUME NEW t \in TaskIds, Expire(t) PROVE Named'
  BY <1>2 DEF Expire, Named
<1>3. CASE CollectExpired
  BY <1>3 DEF CollectExpired, Named
<1>4. ASSUME NEW r \in DOMAIN records, RunnerStarts(r) \/ RunnerEnds(r) PROVE Named'
  <2> DEFINE t == records[r].task_id
  <2>1. PICK status \in Statuses : SetStatus(t, status)
    BY <1>4 DEF RunnerStarts, RunnerEnds, Statuses, Terminal
  <2>2. t \in TaskIds
    <3>1. records[r] \in Record
      BY DEF Types
    <3>. QED BY <3>1 DEF Record
  <2>. HIDE DEF t
  <2>3. CASE tasks[t] = Absent
    BY <2>1, <2>3 DEF SetStatus, Named
  <2>4. CASE tasks[t] # Absent
    <3>1. Emit(subs[t], tasks[t], status) /\ tasks[t] \in DOMAIN records
      BY <2>1, <2>2, <2>4 DEF SetStatus, Types
    <3>2. DOMAIN records' = DOMAIN records /\ stream \in [Subscribers -> Stream]
      BY <2>1, <2>2, SetStatusTypes DEF Types
    <3>3. SamePlaces
      BY <3>1, <3>2, EmitKeepsPlaces
    <3>. QED BY <3>3 DEF SamePlaces, Named
  <2>. QED BY <2>3, <2>4
<1>5. ASSUME NEW s \in Subscribers, NEW t \in TaskIds, Subscribe(s, t) PROVE Named'
  BY <1>5 DEF Subscribe, Types, Unstarted, Named
<1>6. ASSUME NEW s \in Subscribers, Receive(s) PROVE Named'
  <2>1. Received(s, Head(stream[s].queue))
    BY <1>6, ReceiveChanges
  <2>. QED BY <2>1 DEF Received, Named
<1>7. ASSUME NEW s \in Subscribers, Resume(s) \/ Disconnect(s) PROVE Named'
  <2>0. stream[s].phase # "idle" /\ stream[s] \in Stream
    BY <1>7 DEF Resume, Disconnect, Types
  <2>1. CASE \E phase \in {"ended", "gone"} : Leave(s, phase)
    BY <2>0, <2>1 DEF Leave, Types, Named, Unstarted
  <2>2. CASE stream' = [stream EXCEPT ![s].phase = "waiting", ![s].name = "", ![s].record = Absent]
    <3>1. stream'[s] = [stream[s] EXCEPT !.phase = "waiting", !.name = "", !.record = Absent]
          /\ \A q \in Subscribers \ {s} : stream'[q] = stream[q]
      BY <2>2 DEF Types
    <3>2. stream'[s].task_id = stream[s].task_id
      BY <2>0, <3>1 DEF Stream
    <3>. QED BY <2>0, <3>1, <3>2 DEF Named
  <2>. QED BY <1>7, <2>1, <2>2 DEF Resume, Disconnect
<1>8. CASE UNCHANGED vars
  BY <1>8 DEF vars, Named
<1>. QED BY <1>1, <1>2, <1>3, <1>4, <1>5, <1>6, <1>7, <1>8 DEF Next

(* No lost wake-up: a registered, unfiltered stream that waits on an empty *)
(* queue has been told the status its task has now, and not a final one.   *)
THEOREM WaitingStreamIsUpToDateHolds == Spec => []WaitingStreamIsUpToDate
<1>1. Init => Current
  BY DEF Init, Current
<1>2. Types /\ NoOrphanQueues /\ Current /\ [Next]_vars => Current'
  BY CurrentInductive
<1>3. Init => Named
  <2>1. Unstarted.phase = "idle"
    BY DEF Unstarted
  <2>. QED BY <2>1 DEF Init, Named
<1>4. Types /\ NoOrphanQueues /\ Named /\ [Next]_vars => Named'
  BY NamedInductive
<1>5. Named /\ Current => WaitingStreamIsUpToDate
  <2> SUFFICES ASSUME Named, Current, NEW s \in Subscribers,
                      stream[s].phase = "waiting", stream[s].queue = <<>>, stream[s].events = {},
                      s \in subs[stream[s].task_id]
               PROVE  /\ stream[s].told = Status(tasks[stream[s].task_id])
                      /\ Status(tasks[stream[s].task_id]) \notin Terminal
    BY DEF WaitingStreamIsUpToDate
  <2>1. stream[s].task_id \in TaskIds
    BY DEF Named
  <2>2. UpToDate(stream[s].task_id, s)
    BY <2>1 DEF Current
  <2>. QED BY <2>2 DEF UpToDate
<1>. QED BY <1>1, <1>2, <1>3, <1>4, <1>5, TypesHold, NoOrphanQueuesHolds, PTL DEF Spec
-----------------------------------------------------------------------------
(* Every task has a proper life *)

(* An identifier that is not reused has one record; it has ended only if   *)
(* its runner has, and in the table its status goes with its runner.       *)
OneRecord ==
  \A p, q \in DOMAIN records :
    records[p].task_id = records[q].task_id /\ records[p].task_id \notin Reusable => p = q

Life(r) ==
  /\ Status(r) \in Terminal => runner[r] = "done"
  /\ tasks[records[r].task_id] = r =>
       /\ runner[r] = "created" => Status(r) = "pending"
       /\ runner[r] = "running" => Status(r) = "running"
       /\ runner[r] = "done" => Status(r) \in Terminal

Lives ==
  /\ OneRecord
  /\ \A r \in DOMAIN records : records[r].task_id \notin Reusable => Life(r)

(* What a runner does to its task.                                         *)
Reported(r, t, status) ==
  /\ t = records[r].task_id /\ t \in TaskIds
  /\ SetStatus(t, status) /\ status \in Statuses
  /\ UNCHANGED <<tasks, expired, subs>>
  /\ DOMAIN runner' = DOMAIN runner /\ \A q \in DOMAIN runner \ {r} : runner'[q] = runner[q]
  /\ \/ runner[r] = "created" /\ runner'[r] = "running" /\ status = "running"
     \/ runner[r] = "running" /\ runner'[r] = "done" /\ status \in Terminal

LEMMA RunnerReports ==
  ASSUME Types, NEW r \in DOMAIN records, RunnerStarts(r) \/ RunnerEnds(r)
  PROVE  \E status : Reported(r, records[r].task_id, status)
<1>1. records[r].task_id \in TaskIds
  <2>1. records[r] \in Record
    BY DEF Types
  <2>. QED BY <2>1 DEF Record
<1>2. CASE RunnerStarts(r)
  <2>1. Reported(r, records[r].task_id, "running")
    BY <1>1, <1>2 DEF RunnerStarts, Reported, Types, Statuses
  <2>. QED BY <2>1
<1>3. CASE RunnerEnds(r)
  <2>1. PICK outcome \in Terminal : SetStatus(records[r].task_id, outcome)
    BY <1>3 DEF RunnerEnds
  <2>2. outcome \in Statuses
    BY DEF Statuses
  <2>3. Reported(r, records[r].task_id, outcome)
    BY <1>1, <1>3, <2>1, <2>2 DEF RunnerEnds, Reported, Types
  <2>. QED BY <2>3
<1>. QED BY <1>2, <1>3

(* The record that is written is the one in the table.                     *)
LEMMA SetStatusWrites ==
  ASSUME Types, NEW t \in TaskIds, NEW status, SetStatus(t, status)
  PROVE  tasks[t] # Absent => Status(tasks[t])' = status \/ tasks'[t] # tasks[t]
<1> SUFFICES ASSUME tasks[t] # Absent, tasks'[t] = tasks[t] PROVE Status(tasks[t])' = status
  OBVIOUS
<1>1. tasks[t] \in DOMAIN records /\ records[tasks[t]] \in Record
  BY DEF Types
<1>2. records' = [records EXCEPT ![tasks[t]].status = status]
  BY DEF SetStatus
<1>3. records'[tasks[t]] = [records[tasks[t]] EXCEPT !.status = status]
  BY <1>1, <1>2 DEF Types
<1>. QED BY <1>1, <1>3 DEF Status, Record

LEMMA LivesInductive ==
  ASSUME Types, Types', Lives, [Next]_vars
  PROVE  Lives'
<1>1. ASSUME NEW t \in TaskIds, SubmitNew(t) PROVE Lives'
  <2>0. PICK gone, r : gone = (Known \cap expired) \cup Dropped(Known \ expired) /\ r = Len(records) + 1
    OBVIOUS
  <2>1. Submitted(t, gone, r)
    BY <1>1, <2>0, SubmitChanges
  <2>2. t \notin Reusable => \A q \in DOMAIN records : records[q].task_id # t
    BY <1>1 DEF SubmitNew, Unused
  <2>3. records'[r].task_id = t /\ records'[r].status = "pending"
    BY <2>1 DEF Submitted
  <2>4. OneRecord'
    BY <2>1, <2>2, <2>3 DEF Submitted, Lives, OneRecord
  <2>5. Life(r)'
    <3>1. runner'[r] = "created" /\ Status(r)' = "pending"
      BY <2>1, <2>3 DEF Submitted, Status
    <3>. QED BY <3>1 DEF Life, Terminal
  <2>6. ASSUME NEW q \in DOMAIN records, records[q].task_id \notin Reusable PROVE Life(q)'
    <3>1. records'[q] = records[q] /\ runner'[q] = runner[q] /\ Life(q)
      BY <2>1, <2>6 DEF Submitted, Lives
    <3>2. records[q].task_id \in TaskIds
      <4>1. records[q] \in Record
        BY DEF Types
      <4>. QED BY <4>1 DEF Record
    <3>3. q # Absent /\ q # r
      BY <2>1 DEF Submitted, Types, Absent
    <3>4. tasks'[records[q].task_id] = q => tasks[records[q].task_id] = q
      BY <2>1, <3>2, <3>3 DEF Submitted
    <3>. QED BY <3>1, <3>4 DEF Life, Status
  <2>7. \A q \in DOMAIN records : records'[q] = records[q]
    BY <2>1 DEF Submitted
  <2>8. DOMAIN records' = DOMAIN records \cup {r}
    BY <2>1 DEF Submitted
  <2>9. ASSUME NEW q \in DOMAIN records', records'[q].task_id \notin Reusable PROVE Life(q)'
    BY <2>5, <2>6, <2>7, <2>8, <2>9
  <2>. QED BY <2>4, <2>9 DEF Lives
<1>2. CASE UNCHANGED <<records, runner>> /\ \A u \in TaskIds : tasks'[u] \in {Absent, tasks[u]}
  <2>1. ASSUME NEW q \in DOMAIN records, records[q].task_id \notin Reusable PROVE Life(q)'
    <3>1. records[q].task_id \in TaskIds
      <4>1. records[q] \in Record
        BY DEF Types
      <4>. QED BY <4>1 DEF Record
    <3>2. q # Absent
      BY DEF Types, Absent
    <3>. QED BY <1>2, <2>1, <3>1, <3>2 DEF Lives, Life, Status
  <2>. QED BY <1>2, <2>1 DEF Lives, OneRecord
<1>3. ASSUME NEW t \in TaskIds, Expire(t) PROVE Lives'
  BY <1>2, <1>3 DEF Expire
<1>4. CASE CollectExpired
  BY <1>2, <1>4 DEF CollectExpired, Delete
<1>5. ASSUME NEW r \in DOMAIN records, RunnerStarts(r) \/ RunnerEnds(r) PROVE Lives'
  <2> DEFINE t == records[r].task_id
  <2>1. PICK status : Reported(r, t, status)
    BY <1>5, RunnerReports
  <2>2. t = records[r].task_id
    OBVIOUS
  <2>. HIDE DEF t
  <2>3. /\ DOMAIN records' = DOMAIN records
        /\ \A q \in DOMAIN records : records'[q].task_id = records[q].task_id
        /\ \A q \in DOMAIN records : tasks[t] # q => records'[q] = records[q]
    BY <2>1, SetStatusTypes DEF Reported
  <2>4. OneRecord'
    BY <2>3 DEF Lives, OneRecord
  <2>5. ASSUME NEW q \in DOMAIN records, records[q].task_id \notin Reusable PROVE Life(q)'
    <3>0. Life(q) /\ tasks' = tasks /\ q \in DOMAIN runner
      BY <2>1, <2>5 DEF Lives, Reported, Types
    <3>1. CASE q # r
      <4>1. tasks[t] # q
        <5>1. SUFFICES ASSUME tasks[t] = q PROVE FALSE
          OBVIOUS
        <5>2. tasks[t] \in Nat \ {Absent}
          BY <5>1 DEF Types, Absent
        <5>3. t \in Known
          BY <2>1, <5>2 DEF Known, Reported
        <5>4. records[q].task_id = t
          BY <5>1, <5>3 DEF Types
        <5>. QED BY <2>2, <2>5, <3>1, <5>4 DEF Lives, OneRecord
      <4>2. records'[q] = records[q] /\ runner'[q] = runner[q]
        BY <2>1, <2>3, <3>0, <3>1, <4>1 DEF Reported
      <4>. QED BY <3>0, <4>2 DEF Life, Status
    <3>2. CASE q = r /\ tasks[t] # r
      <4>1. records'[r] = records[r] /\ runner[r] # "done"
        BY <2>1, <2>3, <3>2 DEF Reported
      <4>. QED BY <2>2, <3>0, <3>2, <4>1 DEF Life, Status
    <3>3. CASE q = r /\ tasks[t] = r
      <4>1. r # Absent
        BY DEF Types, Absent
      <4>2. Status(r)' = status
        BY <2>1, <3>0, <3>3, <4>1, SetStatusWrites DEF Reported
      <4>. QED BY <2>1, <3>3, <4>2 DEF Reported, Life, Terminal
    <3>. QED BY <3>1, <3>2, <3>3
  <2>. QED BY <2>3, <2>4, <2>5 DEF Lives
<1>6. ASSUME NEW s \in Subscribers, NEW t \in TaskIds, Subscribe(s, t) PROVE Lives'
  BY <1>2, <1>6 DEF Subscribe
<1>7. ASSUME NEW s \in Subscribers, Receive(s) \/ Resume(s) \/ Disconnect(s) PROVE Lives'
  BY <1>2, <1>7 DEF Receive, Resume, Disconnect
<1>8. CASE UNCHANGED vars
  BY <1>2, <1>8 DEF vars
<1>. QED BY <1>1, <1>3, <1>4, <1>5, <1>6, <1>7, <1>8 DEF Next

LEMMA LivesHold == Spec => []Lives
<1>1. Init => Lives
  BY DEF Init, Lives, OneRecord
<1>2. Types /\ Types' /\ Lives /\ [Next]_vars => Lives'
  BY LivesInductive
<1>. QED BY <1>1, <1>2, TypesHold, PTL DEF Spec
-----------------------------------------------------------------------------
(* Subscribers are told the outcome *)

(* An event is of the task of its stream, and if it is called "completed", *)
(* then so is its record.                                                  *)
Announces(t, event) ==
  /\ records[event.record].task_id = t
  /\ event.name = "completed" => Status(event.record) \in Terminal

Completed(s) ==
  stream[s].task_id \notin Reusable =>
    /\ \A i \in DOMAIN stream[s].queue : Announces(stream[s].task_id, stream[s].queue[i])
    /\ stream[s].phase = "yielded" /\ stream[s].name = "completed" => stream[s].told \in Terminal
    /\ stream[s].phase = "ended" /\ stream[s].loop = "task_subscribe" => stream[s].told \in Terminal

AllCompleted == \A s \in Subscribers : Completed(s)

(* A record keeps its identifier, and a final status if the identifier is  *)
(* not reused.                                                             *)
RecordsKept ==
  \A r \in DOMAIN records :
    /\ r \in DOMAIN records' /\ records'[r].task_id = records[r].task_id
    /\ records[r].task_id \notin Reusable /\ Status(r) \in Terminal => Status(r)' \in Terminal

LEMMA ReportKeepsRecords ==
  ASSUME Types, Lives, NEW r \in DOMAIN records, NEW t, NEW status, Reported(r, t, status)
  PROVE  RecordsKept
<1>1. /\ DOMAIN records' = DOMAIN records
      /\ \A q \in DOMAIN records : records'[q].task_id = records[q].task_id
      /\ \A q \in DOMAIN records : tasks[t] # q => records'[q] = records[q]
  BY SetStatusTypes DEF Reported
<1>2. ASSUME NEW q \in DOMAIN records, records[q].task_id \notin Reusable, Status(q) \in Terminal
      PROVE  Status(q)' \in Terminal
  <2>1. q # r
    BY <1>2 DEF Reported, Lives, Life
  <2>2. tasks[t] # q
    <3> SUFFICES ASSUME tasks[t] = q PROVE FALSE
      OBVIOUS
    <3>1. t \in Known
      BY DEF Known, Reported, Types, Absent
    <3>2. records[q].task_id = t
      BY <3>1 DEF Types
    <3>. QED BY <1>2, <2>1, <3>2 DEF Lives, OneRecord, Reported
  <2>. QED BY <1>1, <1>2, <2>2 DEF Status
<1>. QED BY <1>1, <1>2 DEF RecordsKept

LEMMA StaysAnnounced ==
  ASSUME RecordsKept, NEW t, t \notin Reusable, NEW event \in Event, Announces(t, event)
  PROVE  Announces(t, event)'
<1>1. event.record \in DOMAIN records
  BY DEF Event
<1>. QED BY <1>1 DEF RecordsKept, Announces

LEMMA StaysCompleted ==
  ASSUME Types, RecordsKept, NEW s \in Subscribers, Completed(s), stream'[s] = stream[s]
  PROVE  Completed(s)'
<1>1. stream[s].queue \in Seq(Event)
  <2>1. stream[s] \in Stream
    BY DEF Types
  <2>. QED BY <2>1 DEF Stream
<1>2. SUFFICES ASSUME stream[s].task_id \notin Reusable, NEW i \in DOMAIN stream[s].queue
               PROVE  Announces(stream[s].task_id, stream[s].queue[i])'
  BY DEF Completed
<1>3. stream[s].queue[i] \in Event /\ Announces(stream[s].task_id, stream[s].queue[i])
  BY <1>1, <1>2 DEF Completed
<1>4. PICK t, event : t = stream[s].task_id /\ event = stream[s].queue[i]
  OBVIOUS
<1>5. Announces(t, event)'
  BY <1>2, <1>3, <1>4, StaysAnnounced
<1>. QED BY <1>4, <1>5 DEF Announces

LEMMA EventsAreAnnounced ==
  ASSUME NEW status \in Statuses, EventFor(status) = "completed"
  PROVE  status \in Terminal
BY DEF EventFor, Statuses, Terminal

LEMMA CompletedInductive ==
  ASSUME Types, Types', NoOrphanQueues, Lives, AllCompleted, [Next]_vars
  PROVE  AllCompleted'
<1>1. CASE UNCHANGED stream /\ RecordsKept
  BY <1>1, StaysCompleted DEF AllCompleted
<1>2. ASSUME UNCHANGED records PROVE RecordsKept
  BY <1>2 DEF RecordsKept, Status
<1>3. ASSUME NEW t \in TaskIds, SubmitNew(t) PROVE AllCompleted'
  <2>0. PICK gone, r : gone = (Known \cap expired) \cup Dropped(Known \ expired) /\ r = Len(records) + 1
    OBVIOUS
  <2>1. Submitted(t, gone, r)
    BY <1>3, <2>0, SubmitChanges
  <2>2. RecordsKept
    BY <2>1 DEF Submitted, RecordsKept, Status
  <2>3. UNCHANGED stream
    BY <1>3, SubmitTellsNobody
  <2>. QED BY <1>1, <2>2, <2>3
<1>4. ASSUME NEW t \in TaskIds, Expire(t) PROVE AllCompleted'
  BY <1>1, <1>2, <1>4 DEF Expire
<1>5. CASE CollectExpired
  BY <1>1, <1>2, <1>5 DEF CollectExpired
<1>6. ASSUME NEW r \in DOMAIN records, RunnerStarts(r) \/ RunnerEnds(r) PROVE AllCompleted'
  <2>0. PICK status : Reported(r, records[r].task_id, status)
    BY <1>6, RunnerReports
  <2>1. PICK t : t = records[r].task_id
    OBVIOUS
  <2>2. Reported(r, t, status) /\ RecordsKept
    BY <2>0, <2>1, ReportKeepsRecords
  <2>3. CASE tasks[t] = Absent
    BY <1>1, <2>2, <2>3 DEF Reported, SetStatus
  <2>4. CASE tasks[t] # Absent
    <3>1. PICK q, event : q = tasks[t] /\ event = [name |-> EventFor(status), record |-> q]
      OBVIOUS
    <3>2. Emit(subs[t], q, status) /\ t \in Known /\ q \in DOMAIN records /\ records[q].task_id = t
      BY <2>2, <2>4, <3>1 DEF Reported, SetStatus, Known, Types
    <3>3. Announces(t, event)'
      <4>1. tasks'[t] = tasks[t] /\ Status(q)' = status
        BY <2>2, <2>4, <3>1, SetStatusWrites DEF Reported
      <4>2. records'[q].task_id = t
        BY <2>2, <3>2 DEF RecordsKept
      <4>3. event.name = "completed" => status \in Terminal
        BY <2>2, <3>1, EventsAreAnnounced DEF Reported
      <4>. QED BY <3>1, <4>1, <4>2, <4>3 DEF Announces
    <3>4. ASSUME NEW s \in Subscribers PROVE Completed(s)'
      <4>1. Completed(s) /\ stream[s] \in Stream /\ stream \in [Subscribers -> Stream]
        BY DEF AllCompleted, Types
      <4>2. CASE s \notin subs[t]
        <5>1. stream'[s] = stream[s]
          BY <3>1, <3>2, <4>1, <4>2, EmitAppends
        <5>. QED BY <2>2, <4>1, <5>1, StaysCompleted
      <4>3. CASE s \in subs[t]
        <5>1. stream'[s] = [stream[s] EXCEPT !.queue = Append(stream[s].queue, event)]
              /\ stream'[s].queue = Append(stream[s].queue, event)
          BY <3>1, <3>2, <4>1, <4>3, EmitAppends
        <5>2. stream[s].queue \in Seq(Event) /\ stream[s].task_id = t
          BY <3>2, <4>1, <4>3 DEF Stream, NoOrphanQueues, Known
        <5>3. /\ stream'[s].task_id = t /\ stream'[s].phase = stream[s].phase
              /\ stream'[s].name = stream[s].name /\ stream'[s].told = stream[s].told
              /\ stream'[s].loop = stream[s].loop
          BY <4>1, <5>1, <5>2 DEF Stream
        <5>4. ASSUME t \notin Reusable, NEW i \in DOMAIN stream'[s].queue
              PROVE  Announces(t, stream[s].queue[i])'
          <6>1. CASE i = Len(stream[s].queue) + 1
            <7>1. stream'[s].queue[i] = event
              BY <5>1, <5>2, <6>1
            <7>. QED BY <3>3, <7>1 DEF Announces
          <6>2. CASE i \in DOMAIN stream[s].queue
            <7>1. PICK old : old = stream[s].queue[i]
              OBVIOUS
            <7>2. old \in Event /\ Announces(t, old)
              BY <4>1, <5>2, <5>4, <6>2, <7>1 DEF Completed
            <7>3. Announces(t, old)'
              BY <2>2, <5>4, <7>2, StaysAnnounced
            <7>4. stream'[s].queue[i] = old
              BY <5>1, <5>2, <6>2, <7>1
            <7>. QED BY <7>3, <7>4 DEF Announces
          <6>. QED BY <5>1, <5>2, <5>4, <6>1, <6>2
        <5>. QED BY <4>1, <5>2, <5>3, <5>4 DEF Completed
      <4>. QED BY <4>2, <4>3
    <3>. QED BY <3>4 DEF AllCompleted
  <2>. QED BY <2>3, <2>4
<1>7. ASSUME NEW s \in Subscribers, UNCHANGED records,
             \A q \in Subscribers \ {s} : stream'[q] = stream[q], Completed(s)'
      PROVE  AllCompleted'
  <2>1. ASSUME NEW q \in Subscribers \ {s} PROVE Completed(q)'
    BY <1>2, <1>7, StaysCompleted DEF AllCompleted
  <2>. QED BY <1>7, <2>1 DEF AllCompleted
<1>8. ASSUME NEW s \in Subscribers, NEW t \in TaskIds, Subscribe(s, t) PROVE AllCompleted'
  <2>1. /\ UNCHANGED records /\ t \in Known
        /\ \A q \in Subscribers \ {s} : stream'[q] = stream[q]
        /\ stream'[s].phase = "waiting" /\ stream'[s].task_id = t
        /\ stream'[s].queue = FirstEvents(tasks[t])
    BY <1>8 DEF Subscribe, Types, Unstarted
  <2>2. PICK q : q = tasks[t]
    OBVIOUS
  <2>3. q \in DOMAIN records /\ records[q].task_id = t /\ Status(q) \in Statuses
    <3>1. q \in DOMAIN records /\ records[q].task_id = t
      BY <2>1, <2>2 DEF Known, Types
    <3>2. records[q] \in Record
      BY <3>1 DEF Types
    <3>. QED BY <3>1, <3>2 DEF Status, Record
  <2>4. PICK event : event = [name |-> EventFor(Status(q)), record |-> q]
    OBVIOUS
  <2>5. Announces(t, event)'
    <3>1. event.name = "completed" => Status(q) \in Terminal
      BY <2>3, <2>4, EventsAreAnnounced
    <3>2. event.record = q /\ Status(q)' = Status(q) /\ records'[q].task_id = t
      BY <2>1, <2>3, <2>4 DEF Status
    <3>. QED BY <3>1, <3>2 DEF Announces, Status
  <2>6. stream'[s].queue = <<event>>
    BY <2>1, <2>2, <2>4 DEF FirstEvents
  <2>7. Completed(s)'
    BY <2>1, <2>5, <2>6 DEF Completed, Announces
  <2>. QED BY <1>7, <2>1, <2>7
<1>9. ASSUME NEW s \in Subscribers, Receive(s) PROVE AllCompleted'
  <2>1. PICK ev : ev = Head(stream[s].queue)
    OBVIOUS
  <2>2. Received(s, ev)
    BY <1>9, <2>1, ReceiveChanges
  <2>3. stream[s].queue \in Seq(Event) /\ stream[s].queue # <<>> /\ Completed(s)
    <3>1. stream[s] \in Stream
      BY DEF Types
    <3>. QED BY <2>2, <3>1 DEF Stream, Received, AllCompleted
  <2>4. ASSUME stream[s].task_id \notin Reusable
        PROVE  /\ \A i \in DOMAIN Tail(stream[s].queue) : Announces(stream[s].task_id, Tail(stream[s].queue)[i])
               /\ Announces(stream[s].task_id, ev)
    BY <2>1, <2>3, <2>4 DEF Completed
  <2>5. Completed(s)'
    BY <2>2, <2>3, <2>4 DEF Completed, Received, Announces, Status
  <2>. QED BY <1>7, <2>2, <2>5 DEF Received
<1>10. ASSUME NEW s \in Subscribers, Resume(s) \/ Disconnect(s) PROVE AllCompleted'
  <2>0. UNCHANGED records /\ stream[s] \in Stream /\ Completed(s)
    BY <1>10 DEF Resume, Disconnect, Types, AllCompleted
  <2>1. CASE Leave(s, "gone")
    <3>1. stream'[s] = [Unstarted EXCEPT !.phase = "gone", !.task_id = stream[s].task_id,
                                         !.loop = stream[s].loop, !.told = stream[s].told]
          /\ \A q \in Subscribers \ {s} : stream'[q] = stream[q]
      BY <2>1 DEF Leave, Types
    <3>2. stream'[s].phase = "gone" /\ stream'[s].queue = <<>>
      BY <3>1 DEF Unstarted
    <3>3. Completed(s)'
      BY <3>2 DEF Completed
    <3>. QED BY <1>7, <2>0, <3>1, <3>3
  <2>2. CASE Leave(s, "ended") /\ Finished(s) /\ stream[s].phase = "yielded"
    <3>1. stream'[s] = [Unstarted EXCEPT !.phase = "ended", !.task_id = stream[s].task_id,
                                         !.loop = stream[s].loop, !.told = stream[s].told]
          /\ \A q \in Subscribers \ {s} : stream'[q] = stream[q]
      BY <2>2 DEF Leave, Types
    <3>2. /\ stream'[s].phase = "ended" /\ stream'[s].queue = <<>>
          /\ stream'[s].task_id = stream[s].task_id /\ stream'[s].loop = stream[s].loop
          /\ stream'[s].told = stream[s].told
      BY <3>1 DEF Unstarted
    <3>3. Completed(s)'
      BY <2>0, <2>2, <3>2 DEF Completed, Finished
    <3>. QED BY <1>7, <2>0, <3>1, <3>3
  <2>3. CASE stream' = [stream EXCEPT ![s].phase = "waiting", ![s].name = "", ![s].record = Absent]
    <3>1. stream'[s] = [stream[s] EXCEPT !.phase = "waiting", !.name = "", !.record = Absent]
          /\ \A q \in Subscribers \ {s} : stream'[q] = stream[q]
      BY <2>3 DEF Types
    <3>2. /\ stream'[s].phase = "waiting" /\ stream'[s].queue = stream[s].queue
          /\ stream'[s].task_id = stream[s].task_id
      BY <2>0, <3>1 DEF Stream
    <3>3. Completed(s)'
      BY <2>0, <3>2 DEF Completed, Announces, Status
    <3>. QED BY <1>7, <2>0, <3>1, <3>3
  <2>. QED BY <1>10, <2>1, <2>2, <2>3 DEF Resume, Disconnect
<1>11. CASE UNCHANGED vars
  BY <1>1, <1>2, <1>11 DEF vars
<1>. QED BY <1>3, <1>4, <1>5, <1>6, <1>8, <1>9, <1>10, <1>11 DEF Next

(* A stream that task_subscribe ends has told its client the final status, *)
(* unless its identifier is used again.                                    *)
THEOREM SubscribersToldOutcomeHolds == Spec => []SubscribersToldOutcome
<1>1. Init => AllCompleted
  <2>1. Unstarted.phase = "idle" /\ Unstarted.queue = <<>>
    BY DEF Unstarted
  <2>. QED BY <2>1 DEF Init, AllCompleted, Completed
<1>2. Types /\ Types' /\ NoOrphanQueues /\ Lives /\ AllCompleted /\ [Next]_vars => AllCompleted'
  BY CompletedInductive
<1>3. AllCompleted => SubscribersToldOutcome
  BY DEF AllCompleted, Completed, SubscribersToldOutcome, ToldOutcome
<1>. QED BY <1>1, <1>2, <1>3, TypesHold, NoOrphanQueuesHolds, LivesHold, PTL DEF Spec
-----------------------------------------------------------------------------
(* Polling is consistent *)

(* What polling shows of a task: Lifecycle's variable.                     *)
Shown(t) ==
  IF t \in Known THEN Status(tasks[t]) ELSE IF Unused(t) THEN "unknown" ELSE "forgotten"

Seen == [t \in TaskIds \ Reusable |-> Shown(t)]

LEMMA KnownAreUsed ==
  ASSUME Types, NEW t \in Known
  PROVE  ~Unused(t) /\ Shown(t) \in Statuses /\ Shown(t) = Status(tasks[t])
<1>1. tasks[t] \in DOMAIN records /\ records[tasks[t]].task_id = t
  BY DEF Types, Known
<1>2. records[tasks[t]] \in Record
  BY <1>1 DEF Types
<1>. QED BY <1>1, <1>2 DEF Unused, Shown, Status, Record

(* A task that leaves the table is forgotten, and the others stay.         *)
LEMMA DropForgets ==
  ASSUME Types, UNCHANGED records, NEW gone,
         tasks' = [u \in TaskIds |-> IF u \in gone THEN Absent ELSE tasks[u]]
  PROVE  Lifecycle!Next \/ UNCHANGED Seen
<1>0. PICK T : T = (gone \cap Known) \ Reusable
  OBVIOUS
<1>1. T \in SUBSET (TaskIds \ Reusable) /\ \A t \in T : Seen[t] # "unknown"
  <2>1. \A t \in T : t \in Known /\ t \in TaskIds \ Reusable
    BY <1>0 DEF Known
  <2>. QED BY <2>1, KnownAreUsed DEF Seen, Statuses, Terminal
<1>2. Seen' = [t \in TaskIds \ Reusable |-> IF t \in T THEN "forgotten" ELSE Seen[t]]
  <2>1. ASSUME NEW t \in TaskIds \ Reusable
        PROVE  Shown(t)' = IF t \in T THEN "forgotten" ELSE Shown(t)
    <3>1. Unused(t)' = Unused(t)
      BY DEF Unused
    <3>2. t \in Known' <=> t \in Known /\ t \notin gone
      BY DEF Known
    <3>3. t \in Known' => Status(tasks[t])' = Status(tasks[t])
      BY <3>2 DEF Known, Status
    <3>4. t \in Known => ~Unused(t)
      BY KnownAreUsed
    <3>. QED BY <1>0, <2>1, <3>1, <3>2, <3>3, <3>4 DEF Shown
  <2>. QED BY <2>1 DEF Seen
<1>3. Lifecycle!Forgotten(T)
  BY <1>1, <1>2 DEF Lifecycle!Forgotten, Seen, Shown
<1>. QED BY <1>1, <1>3 DEF Lifecycle!Next

LEMMA SubmitIsShown ==
  ASSUME Types, Lives, NEW t \in TaskIds, SubmitNew(t)
  PROVE  Lifecycle!Next \/ UNCHANGED Seen
<1>0. PICK gone, r : gone = (Known \cap expired) \cup Dropped(Known \ expired) /\ r = Len(records) + 1
  OBVIOUS
<1>1. Submitted(t, gone, r)
  BY <1>0, SubmitChanges
<1>2. t \in Reusable \/ Unused(t)
  BY DEF SubmitNew
<1>3. ASSUME NEW u \in TaskIds \ Reusable, u # t
      PROVE  Shown(u)' = IF u \in gone /\ Shown(u) # "unknown" THEN "forgotten" ELSE Shown(u)
  <2>1. \A q \in DOMAIN records : records'[q] = records[q]
    BY <1>1 DEF Submitted
  <2>2. records'[r].task_id = t /\ DOMAIN records' = DOMAIN records \cup {r}
    BY <1>1 DEF Submitted
  <2>3. Unused(u)' = Unused(u)
    BY <1>3, <2>1, <2>2 DEF Unused
  <2>4. u \in Known' <=> u \in Known /\ u \notin gone
    BY <1>1, <1>3 DEF Submitted
  <2>5. u \in Known' => Status(tasks[u])' = Status(tasks[u])
    <3> SUFFICES ASSUME u \in Known' PROVE Status(tasks[u])' = Status(tasks[u])
      OBVIOUS
    <3>1. tasks'[u] = tasks[u] /\ tasks[u] \in DOMAIN records
      BY <1>1, <1>3, <2>4 DEF Submitted, Types, Known
    <3>. QED BY <2>1, <3>1 DEF Status
  <2>6. u \in Known => ~Unused(u) /\ Shown(u) # "unknown"
    BY KnownAreUsed DEF Statuses, Terminal
  <2>. QED BY <2>3, <2>4, <2>5, <2>6 DEF Shown
<1>4. CASE t \notin Reusable
  <2>1. Seen[t] = "unknown"
    <3>1. t \notin Known
      BY <1>2, <1>4, KnownAreUsed
    <3>. QED BY <1>2, <1>4, <3>1 DEF Seen, Shown
  <2>2. Shown(t)' = "pending"
    <3>1. t \in Known' /\ tasks'[t] = r /\ records'[r].status = "pending"
      BY <1>1 DEF Submitted
    <3>. QED BY <3>1 DEF Shown, Status
  <2>3. PICK dropped \in SUBSET (TaskIds \ Reusable) : dropped = gone \cap (TaskIds \ Reusable)
    OBVIOUS
  <2>4. Seen' = [u \in TaskIds \ Reusable |->
                   IF u = t THEN "pending"
                   ELSE IF u \in dropped /\ Seen[u] # "unknown" THEN "forgotten" ELSE Seen[u]]
    BY <1>3, <1>4, <2>2, <2>3 DEF Seen
  <2>5. Lifecycle!Submitted(t)
    BY <1>4, <2>1, <2>4 DEF Lifecycle!Submitted, Seen, Shown
  <2>. QED BY <1>4, <2>5 DEF Lifecycle!Next
<1>5. CASE t \in Reusable
  <2>1. PICK T : T = {u \in gone \cap (TaskIds \ Reusable) : Shown(u) # "unknown"}
    OBVIOUS
  <2>2. Seen' = [u \in TaskIds \ Reusable |-> IF u \in T THEN "forgotten" ELSE Seen[u]]
    BY <1>3, <1>5, <2>1 DEF Seen
  <2>3. T \in SUBSET (TaskIds \ Reusable) /\ \A u \in T : Seen[u] # "unknown"
    BY <2>1 DEF Seen
  <2>4. Lifecycle!Forgotten(T)
    BY <2>2, <2>3 DEF Lifecycle!Forgotten, Seen, Shown
  <2>. QED BY <2>3, <2>4 DEF Lifecycle!Next
<1>. QED BY <1>4, <1>5

LEMMA ReportIsShown ==
  ASSUME Types, Types', Lives, NEW r \in DOMAIN records, NEW t, t = records[r].task_id,
         NEW status, Reported(r, t, status)
  PROVE  Lifecycle!Next \/ UNCHANGED Seen
<1>1. /\ DOMAIN records' = DOMAIN records
      /\ \A q \in DOMAIN records : records'[q].task_id = records[q].task_id
      /\ \A q \in DOMAIN records : tasks[t] # q => records'[q] = records[q]
      /\ UNCHANGED tasks
  BY SetStatusTypes DEF Reported
<1>2. ASSUME NEW u \in TaskIds, u # t \/ tasks[t] = Absent PROVE Shown(u)' = Shown(u)
  <2>1. Unused(u)' = Unused(u)
    BY <1>1 DEF Unused
  <2>2. u \in Known' <=> u \in Known
    BY <1>1 DEF Known
  <2>3. u \in Known => Status(tasks[u])' = Status(tasks[u])
    <3> SUFFICES ASSUME u \in Known PROVE Status(tasks[u])' = Status(tasks[u])
      OBVIOUS
    <3>1. tasks[u] \in DOMAIN records /\ records[tasks[u]].task_id = u /\ tasks[u] # Absent
      BY DEF Known, Types
    <3>2. tasks[t] # Absent => t \in Known /\ records[tasks[t]].task_id = t
      BY DEF Known, Types, Reported
    <3>3. tasks[t] # tasks[u]
      BY <1>2, <3>1, <3>2
    <3>. QED BY <1>1, <3>1, <3>3 DEF Status
  <2>. QED BY <2>1, <2>2, <2>3 DEF Shown
<1>3. CASE t \in Reusable \/ tasks[t] = Absent
  <2>1. \A u \in TaskIds \ Reusable : Shown(u)' = Shown(u)
    BY <1>2, <1>3
  <2>. QED BY <2>1 DEF Seen
<1>4. CASE t \notin Reusable /\ tasks[t] # Absent
  <2>1. t \in TaskIds \ Reusable /\ t \in Known /\ tasks[t] \in DOMAIN records /\ records[tasks[t]].task_id = t
    BY <1>4 DEF Reported, Known, Types
  <2>2. tasks[t] = r
    BY <1>4, <2>1 DEF Lives, OneRecord
  <2>3. Shown(t) = Status(r) /\ Life(r) /\ Seen[t] = Status(r)
    BY <1>4, <2>1, <2>2 DEF Shown, Lives, Seen
  <2>4. Shown(t)' = status
    <3>1. t \in Known' /\ tasks'[t] = tasks[t]
      BY <1>1, <2>1 DEF Known
    <3>2. Status(tasks[t])' = status
      BY <1>4, <3>1, SetStatusWrites DEF Reported
    <3>. QED BY <3>1, <3>2 DEF Shown
  <2>5. Seen' = [Seen EXCEPT ![t] = status]
    BY <1>2, <2>1, <2>4 DEF Seen
  <2>6. CASE runner[r] = "created" /\ status = "running"
    <3>1. Seen[t] = "pending"
      BY <2>2, <2>3, <2>6 DEF Life, Reported
    <3>2. Lifecycle!Starts(t)
      BY <2>5, <2>6, <3>1 DEF Lifecycle!Starts, Seen, Shown
    <3>. QED BY <2>1, <3>2 DEF Lifecycle!Next
  <2>7. CASE runner[r] = "running" /\ status \in Terminal
    <3>1. Seen[t] = "running"
      BY <2>2, <2>3, <2>7 DEF Life, Reported
    <3>2. status \in Lifecycle!Outcomes
      BY <2>7 DEF Lifecycle!Outcomes, Terminal
    <3>3. Lifecycle!Ends(t)
      BY <2>5, <3>1, <3>2 DEF Lifecycle!Ends, Seen, Shown
    <3>. QED BY <2>1, <3>3 DEF Lifecycle!Next
  <2>. QED BY <2>6, <2>7 DEF Reported
<1>. QED BY <1>3, <1>4

LEMMA StepIsShown ==
  ASSUME Types, Types', NoOrphanQueues, Lives, [Next]_vars
  PROVE  Lifecycle!Next \/ UNCHANGED Seen
<1>1. ASSUME NEW t \in TaskIds, SubmitNew(t) PROVE Lifecycle!Next \/ UNCHANGED Seen
  BY <1>1, SubmitIsShown
<1>2. CASE UNCHANGED <<records, tasks>>
  BY <1>2 DEF Seen, Shown, Known, Status, Unused
<1>3. ASSUME NEW t \in TaskIds, Expire(t) PROVE UNCHANGED <<records, tasks>>
  BY <1>3 DEF Expire
<1>4. CASE CollectExpired
  <2>1. PICK gone : gone = Known \cap expired
    OBVIOUS
  <2>2. UNCHANGED records /\ tasks' = [u \in TaskIds |-> IF u \in gone THEN Absent ELSE tasks[u]]
    BY <1>4, <2>1 DEF CollectExpired, Delete
  <2>. QED BY <2>2, DropForgets
<1>5. ASSUME NEW r \in DOMAIN records, RunnerStarts(r) \/ RunnerEnds(r)
      PROVE  Lifecycle!Next \/ UNCHANGED Seen
  <2>1. PICK status : Reported(r, records[r].task_id, status)
    BY <1>5, RunnerReports
  <2>2. PICK t : t = records[r].task_id
    OBVIOUS
  <2>. QED BY <2>1, <2>2, ReportIsShown
<1>6. ASSUME NEW s \in Subscribers, NEW t \in TaskIds, Subscribe(s, t)
      PROVE  Lifecycle!Next \/ UNCHANGED Seen
  <2>1. PICK gone : gone = Known \cap expired
    OBVIOUS
  <2>2. UNCHANGED records /\ tasks' = [u \in TaskIds |-> IF u \in gone THEN Absent ELSE tasks[u]]
    BY <1>6, <2>1 DEF Subscribe
  <2>. QED BY <2>2, DropForgets
<1>7. ASSUME NEW s \in Subscribers, Receive(s) \/ Resume(s) \/ Disconnect(s)
      PROVE  UNCHANGED <<records, tasks>>
  BY <1>7 DEF Receive, Resume, Disconnect
<1>8. UNCHANGED vars => UNCHANGED <<records, tasks>>
  BY DEF vars
<1>. QED BY <1>1, <1>2, <1>3, <1>4, <1>5, <1>6, <1>7, <1>8 DEF Next

(* Polling shows every task whose identifier is not reused a proper life:  *)
(* the manager implements TaskLifecycle.                                   *)
THEOREM PollingIsConsistentHolds == Spec => PollingIsConsistent
<1>1. Init => Lifecycle!Init
  <2> SUFFICES ASSUME Init PROVE Lifecycle!Init
    OBVIOUS
  <2>1. \A t \in TaskIds \ Reusable : Shown(t) = "unknown"
    BY DEF Init, Shown, Known, Unused
  <2>. QED BY <2>1 DEF Lifecycle!Init, Shown
<1>2. Types /\ Types' /\ NoOrphanQueues /\ Lives /\ [Next]_vars => [Lifecycle!Next]_Seen
  BY StepIsShown
<1>3. Seen = [t \in TaskIds \ Reusable |->
                IF t \in Known THEN Status(tasks[t])
                ELSE IF Unused(t) THEN "unknown" ELSE "forgotten"]
  BY DEF Seen, Shown
<1>. QED BY <1>1, <1>2, <1>3, TypesHold, NoOrphanQueuesHolds, LivesHold, PTL
         DEF Spec, PollingIsConsistent, Lifecycle!Spec, Seen, Shown
==============================================================================
