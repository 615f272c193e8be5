-------------------------------- MODULE RpcCall --------------------------------
(***************************************************************************)
(* One call of a client over one of the four transports: what the client   *)
(* sends, what arrives at the request handler (server/request_handlers/    *)
(* default_request_handler.py), what the handler gives, behind the         *)
(* interceptor chain (server/context.py), and what the caller is told.     *)
(*                                                                         *)
(* Everything a method may do is a choice of the handler: results of each  *)
(* kind, errors and exceptions.  TaskManager has what happens to a task    *)
(* between the calls about it.                                             *)
(***************************************************************************)
EXTENDS Protocol

CONSTANTS
  Transports,       \* which of the four there are
  Inputs(_),        \* what clients call an operation with
  Dicts,            \* what headers and baggage may be
  MethodCodes,      \* the codes of the errors that methods answer with
  MaxItems,         \* bound: the items of a stream of answers
  Fallback,         \* TenantInterceptor's fallback_tenant
  Refused(_, _, _), \* the outcome of a client method that sends nothing, by transport, operation and input; or None
  Arrives(_, _, _), \* what the server calls the request handler with, or the error of a conversion
  Told(_, _, _)     \* what becomes of what the request handler gave, by transport and operation

VARIABLES
  transport, op,  \* the client's transport and the method called on it
  stage,          \* "sent", "arrived", "served" or "answered"
  sent,           \* the argument of the client's method
  served,         \* the argument of the request handler's method, and the tenant it runs as
  done,           \* what the request handler gave
  outcome         \* what the caller got

vars == <<transport, op, stage, sent, served, done, outcome>>

Unary == {"call", "call_client_stream"}
Streaming == {"call_server_stream", "call_bidirectional"}
Collecting == {"call_client_stream", "call_bidirectional"}
MessageOps == Unary \cup Streaming
TaskOps == {"task_submit", "task_query", "task_cancel", "task_subscribe"}
HealthOps == {"health_check", "health_watch"}
Operations == MessageOps \cup TaskOps \cup HealthOps
-----------------------------------------------------------------------------
(* what a client may call an operation with *)

RetryPolicy ==
  [strategy : {"fixed", "exponential", "linear"}, max_attempts : Int, initial_delay_ms : Int,
   retryable_codes : Optional(SUBSET Int)]

QosConfig ==
  [enabled : BOOLEAN, priority : Priorities, timeout_ms : Int, ttl_s : Int, retry : Optional(RetryPolicy),
   idempotency_key : Optional(STRING)]

AuthContext ==
  [scheme : AuthSchemes, credentials : Optional(STRING), principal : Optional(STRING),
   roles : Optional(Seq(STRING))]

RequestMetadata ==
  [client_id : Optional(STRING), auth : Optional(AuthContext), tenant_id : Optional(STRING),
   headers : Optional(Dicts), long_task : BOOLEAN, long_task_method : Optional(STRING),
   long_task_timeout : Optional(Int)]

TraceContext ==
  [trace_id : STRING, span_id : STRING, sampled : BOOLEAN, parent_span_id : Optional(STRING),
   baggage : Optional(Dicts)]

Request ==
  [id : Optional(STRING), method : STRING, name : Optional(STRING),
   data : {None, "empty", "ints", "texts"}, trace_context : Optional(TraceContext),
   metadata : Optional(RequestMetadata), qos : Optional(QosConfig), meta : {None}]

\* "task": parameters that make a request for task/submit; "plain": another valid request
Argument(o) ==
  CASE o \in {"call", "call_server_stream"} -> Request
    [] o \in Collecting -> Seq(Request) \ {<<>>}
    [] o = "task_submit" ->
         [target_method : STRING, params : {"empty", "plain", "task"}, priority : Optional(Priorities)]
    [] o = "task_query" -> [task_id : STRING]
    [] o = "task_cancel" -> [task_id : STRING, reason : Optional(STRING)]
    [] o = "task_subscribe" -> [task_id : STRING, events : Optional(Seq(STRING))]
    [] OTHER -> [service : Optional(STRING)]

ASSUME RpcAssumption ==
  /\ Transports \subseteq {"grpc", "thrift", "jsonrpc", "rest"}
  /\ \A o \in Operations : Inputs(o) \subseteq Argument(o)
  /\ MethodCodes \subseteq Int
  /\ MaxItems \in Nat
  /\ Fallback \in STRING
-----------------------------------------------------------------------------
(* the request handler *)

Results == {None, "ints", "texts", "object"}

\* _coerce_stream_item: a method's RpcError, or its AduibRpcResponse with one, is an error item
StreamItems == {Success("1", v) : v \in {"ints", "texts", "object"}} \cup {Failed("1", RpcError(code)) : code \in MethodCodes}

\* _abort_response: an interceptor refused the request (its principal, or the rate)
Refusals == {Done(<<Failed("1", RpcError(code))>>, None) : code \in {3011, 5020}}

\* VersionNegotiationInterceptor yields again when the method raised: contextlib raises this
Broken == PythonError("RuntimeError")

\* on_message and on_stream_message
on_message == Refusals \cup {Done(<<Success("1", v)>>, None) : v \in Results} \cup {Done(<<>>, Broken)}

on_stream_message ==
  Refusals \cup {Done(items, e) : items \in UNION {[1..n -> StreamItems] : n \in 0..MaxItems}, e \in {None, Broken}}

\* _task_record_from_manager: a result is the AduibRpcResponse of on_message, or what a task
\* that the application submitted itself returned
Records ==
  {[NewTask EXCEPT !.status = s, !.max_attempts = 1] : s \in {"pending", "running", "canceled"}} \cup
  {[NewTask EXCEPT !.status = "succeeded", !.max_attempts = 1, !.result = v] : v \in {"ints", "object"}} \cup
  {[NewTask EXCEPT !.status = "failed", !.max_attempts = 1, !.error = RpcError(5000)]}

Event(record) ==
  [task |-> record,
   event |-> CASE record.status = "running" -> "started"
               [] record.status = "succeeded" -> "completed"
               [] record.status \in {"failed", "canceled"} -> "failed"
               [] OTHER -> "progress"]

IsTerminal(record) == record.status \in {"succeeded", "failed", "canceled"}

NoSuchTask == RpcExceptionOf(4000)

\* params must be a request, and one for task/submit
task_submit(s) ==
  CASE s.params = "empty" -> {Done(<<>>, PythonError("ValidationError"))}
    [] s.params = "plain" -> {Done(<<>>, RpcExceptionOf(4001))}
    [] OTHER -> {Done(<<[task_id |-> "t", status |-> "pending"]>>, None)}

task_query(q) == {Done(<<r>>, None) : r \in Records} \cup {Done(<<>>, NoSuchTask)}

\* InMemoryTaskManager has no cancel: nothing is ever canceled; an unknown task is told as failed
task_cancel(c) ==
  {Done(<<[task_id |-> c.task_id, status |-> r.status, canceled |-> FALSE]>>, None) : r \in Records} \cup
  {Done(<<[task_id |-> c.task_id, status |-> "failed", canceled |-> FALSE]>>, None)}

Events == {Event(r) : r \in Records}

Wanted(s) == {e \in Events : s.events \in {None, <<>>} \/ \E i \in DOMAIN s.events : s.events[i] = e.event}

\* the events of a task until it has ended, less those that were not asked for; TaskNotFoundError is a KeyError
task_subscribe(s) ==
  LET started == {e \in Wanted(s) : e.task.status = "running"}
      ended == {e \in Wanted(s) : IsTerminal(e.task)}
  IN  {Done(<<e>>, None) : e \in ended} \cup {Done(<<a, b>>, None) : a \in started, b \in ended}
        \cup {Done(<<>>, PythonError("KeyError"))}

health_check(h) ==
  {Done(<<[status |-> "healthy",
           services |-> IF h.service \in {None, ""} THEN None ELSE [s \in {h.service} |-> "healthy"]]>>, None)}

HandlerGives(o, input) ==
  CASE o \in Unary -> on_message
    [] o \in Streaming -> on_stream_message
    [] o = "task_submit" -> task_submit(input)
    [] o = "task_query" -> task_query(input)
    [] o = "task_cancel" -> task_cancel(input)
    [] o = "task_subscribe" -> task_subscribe(input)
    [] OTHER -> health_check(input)
-----------------------------------------------------------------------------
Init ==
  /\ transport \in Transports
  /\ op \in Operations
  /\ sent \in Inputs(op)
  /\ stage = "sent" /\ served = None /\ done = None /\ outcome = None

Refusal == Refused(transport, op, sent)

Arrival == Arrives(transport, op, sent)

\* an operation that the transport does not have, or an argument it cannot write
Refuse ==
  /\ stage = "sent"
  /\ Refusal # None
  /\ outcome' = Refusal
  /\ stage' = "answered"
  /\ UNCHANGED <<transport, op, sent, served, done>>

\* a request that cannot be converted is answered like one whose handler raised
Reject ==
  /\ stage = "sent" /\ Refusal = None
  /\ Arrival.raised # None
  /\ done' = Arrival
  /\ stage' = "served"
  /\ UNCHANGED <<transport, op, sent, served, outcome>>

\* TenantInterceptor binds the tenant of a message
Bound(call) == IF op \in MessageOps THEN [call EXCEPT !.tenant = Given(@, Fallback)] ELSE call

Arrive ==
  /\ stage = "sent" /\ Refusal = None
  /\ Arrival.raised = None
  /\ served' = Bound(Arrival.items[1])
  /\ stage' = "arrived"
  /\ UNCHANGED <<transport, op, sent, done, outcome>>

Serve ==
  /\ stage = "arrived"
  /\ done' \in HandlerGives(op, served.request)
  /\ stage' = "served"
  /\ UNCHANGED <<transport, op, sent, served, outcome>>

Answer ==
  /\ stage = "served"
  /\ outcome' = Told(transport, op, done)
  /\ stage' = "answered"
  /\ UNCHANGED <<transport, op, sent, served, done>>

Next == Refuse \/ Reject \/ Arrive \/ Serve \/ Answer

Spec == Init /\ [][Next]_vars
-----------------------------------------------------------------------------
(* what is kept of a request *)

First(input) == IF op \in Collecting THEN input[1] ELSE input

Binary == transport \in {"grpc", "thrift"}

\* an empty list of codes retries what no list retries
SameCodes(c, d) == c = d \/ {c, d} \subseteq {None, {}}

SameList(a, b) == a = b \/ {a, b} \subseteq {None, <<>>}

MessageArrived == served # None /\ op \in MessageOps

SameRetry(a, b) ==
  /\ a.max_attempts = b.max_attempts \/ (Binary /\ a.max_attempts = 0)
  /\ SameCodes(a.retryable_codes, b.retryable_codes)
  /\ a.initial_delay_ms = b.initial_delay_ms \/ (Binary /\ a.initial_delay_ms = 0)
  /\ a.strategy = b.strategy \/ Binary

SameQos(a, b) ==
  /\ b # None
  /\ <<a.priority, a.timeout_ms, a.idempotency_key>> = <<b.priority, b.timeout_ms, b.idempotency_key>>
  /\ (a.retry = None) = (b.retry = None)
  /\ a.retry # None => SameRetry(a.retry, b.retry)

\* The QoS handler works with the priority, timeout, idempotency key and retry policy that the client
\* gave, whatever numbers stand for them on the wire; the strategy, a delay of 0 and a number of attempts
\* of 0 are lost on the binary wires.
QosArrives ==
  (MessageArrived /\ First(sent).qos # None) => SameQos(First(sent).qos, served.request.qos)

SameAuth(a, b) ==
  /\ <<a.principal, a.credentials>> = <<b.principal, b.credentials>>
  /\ SameList(a.roles, b.roles)
  /\ \/ a.scheme = b.scheme
     \/ Binary /\ a.scheme = "basic" /\ b.scheme = "unspecified"

\* A method runs with the caller's principal, credentials and roles, and, except over JSON-RPC, as the
\* tenant its metadata names (there is no number for the scheme "basic"; the JSON-RPC server asks the HTTP
\* headers alone, so that a request runs as the fallback tenant though its metadata names another).
IdentityArrives ==
  (MessageArrived /\ First(sent).metadata # None) =>
    LET a == First(sent).metadata
        b == served.request.metadata
    IN  /\ (a.auth = None) = (b.auth = None)
        /\ a.auth # None => SameAuth(a.auth, b.auth)
        /\ (a.tenant_id \notin {None, ""} /\ transport # "jsonrpc") => served.tenant = a.tenant_id

\* The messages a client streams reach the method completely and in the order sent, after the data of
\* the first; the numbers of gRPC are doubles, and no data may arrive as {}.
SameData(a, b) == a = b \/ <<a, b>> = <<"ints", "doubles">> \/ {a, b} \subseteq {None, "empty"}

StreamArrives ==
  (MessageArrived /\ op \in Collecting) =>
    /\ Len(served.stream_items) = Len(sent) - 1
    /\ SameData(sent[1].data, served.request.data)
    /\ \A i \in DOMAIN served.stream_items : SameData(sent[i + 1].data, served.stream_items[i])
-----------------------------------------------------------------------------
(* what is kept of an outcome *)

\* a result the gRPC server cannot write, an error instead
Lost(item) == transport = "grpc" /\ item.status = "success" /\ item.result = "object"

SameResult(a, b) == a = b \/ <<a, b>> \in {<<"ints", "doubles">>, <<"object", "dict">>, <<"object", "_unserializable">>}

\* the caller's item for an item of the handler
Tells(told, item) ==
  IF IsSuccess(item)
  THEN IF Lost(item) THEN ~IsSuccess(told) /\ told.error.code = InternalErrorCode
       ELSE IsSuccess(told) /\ SameResult(item.result, told.result)
  ELSE ~IsSuccess(told) /\ told.error # None /\ told.error.code = item.error.code

TellsRaised(told) == ~IsSuccess(told) /\ told.error # None /\ told.error.code = map_exception_to_error_code(done.raised)

\* the answer of a message, as items: an HTTP status stands for the error of a REST response
ItemsTold ==
  LET n == Len(outcome.items)
      m == Len(done.items)
  IN  /\ outcome.raised = None
      /\ \A i \in 1..n : i <= m => Tells(outcome.items[i], done.items[i])
      /\ n > m => n = m + 1 /\ done.raised # None /\ TellsRaised(outcome.items[n])
      /\ n = m => done.raised = None \/ (transport = "rest" /\ n > 0 /\ ~IsSuccess(outcome.items[n]))
                                     \/ (n > 0 /\ Lost(done.items[n]))
      /\ n < m => n > 0 /\ ((transport = "rest" /\ ~IsSuccess(done.items[n])) \/ Lost(done.items[n]))

RestStatusTold ==
  /\ outcome.items = <<>> /\ outcome.raised # None
  /\ outcome.raised.code = error_code_to_http_status(
       IF done.raised # None THEN map_exception_to_error_code(done.raised) ELSE done.items[1].error.code)

MessageAnswered == stage = "answered" /\ op \in MessageOps /\ done # None

Failing == done.raised # None \/ \E i \in DOMAIN done.items : op \in MessageOps /\ ~IsSuccess(done.items[i])

\* The caller of a method gets what the method gave, in its order and up to the first thing that
\* could not be sent: results as results, errors with their codes.  Thrift, whose streams are lists,
\* tells only the error of a stream that raised one.
OutcomeTold ==
  MessageAnswered =>
    CASE transport = "rest" /\ op = "call" /\ Failing -> RestStatusTold
      [] transport = "thrift" /\ done.raised # None ->
           Len(outcome.items) = 1 /\ outcome.raised = None /\ TellsRaised(outcome.items[1])
      [] OTHER -> ItemsTold

\* No caller takes a failure of any operation for a success, and none a success for a failure, but for
\* the results gRPC cannot write.
FailureTold ==
  (stage = "answered" /\ done # None) =>
    LET told == \/ outcome.raised # None
                \/ op \in MessageOps /\ \E i \in DOMAIN outcome.items : ~IsSuccess(outcome.items[i])
        lost == op \in MessageOps /\ \E i \in DOMAIN done.items : Lost(done.items[i])
    IN  told <=> (Failing \/ lost)

\* Whoever asks for a task, or follows its events, is told its status, attempts and error as they are, and
\* its result, except over Thrift, where the client reads another field and takes the wire's number
\* for the priority.
SameTask(a, b) ==
  /\ <<a.task_id, a.status, a.attempt, a.max_attempts>> = <<b.task_id, b.status, b.attempt, b.max_attempts>>
  /\ IF a.error = None THEN b.error = None ELSE b.error # None /\ a.error.code = b.error.code
  /\ transport # "thrift" =>
       /\ a.priority = b.priority
       /\ SameResult(a.result, b.result) \/ <<a.result, b.result>> = <<"object", "text">>

RecordTold ==
  (stage = "answered" /\ done # None /\ ~Failing) =>
    /\ op = "task_query" => SameTask(done.items[1], outcome.items[1])
    /\ op = "task_subscribe" =>
         /\ Len(outcome.items) = Len(done.items)
         /\ \A i \in DOMAIN done.items : /\ outcome.items[i].event = done.items[i].event
                                         /\ SameTask(done.items[i].task, outcome.items[i].task)
================================================================================
