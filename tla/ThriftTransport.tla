---------------------------- MODULE ThriftTransport ----------------------------
(***************************************************************************)
(* A call over Thrift: the handlers of server/request_handlers/            *)
(* thrift_v2_handler.py, between the service stubs and the request         *)
(* handler, and the methods of client/transports/thrift.py around them.    *)
(*                                                                         *)
(* ..._arrives is what the request handler is called with when a client    *)
(* method sends something; an operation of the server turns what the       *)
(* request handler gives (Done) into the answer of the service; the client *)
(* method turns that answer into what its caller gets (Done again).        *)
(***************************************************************************)
EXTENDS ThriftConversions, Arrivals

\* the names under which a tenant is looked for, in this order
TenantNames == <<"tenant_id", "X-Tenant-ID", "x-tenant-id", "X-Tenant", "x-tenant">>

\* _extract_metadata and _attach_tenant_id, on the first request of the call
thrift_tenant(v) ==
  LET headers == IF v.metadata = None \/ v.metadata.headers = None THEN <<>> ELSE v.metadata.headers
      named == {n \in DOMAIN TenantNames : TenantNames[n] \in DOMAIN headers /\ headers[TenantNames[n]] # ""}
      first == CHOOSE n \in named : \A m \in named : n <= m
  IN  CASE v.metadata # None /\ v.metadata.tenant_id \notin {None, ""} -> v.metadata.tenant_id
        [] OTHER -> IF named = {} THEN None ELSE headers[TenantNames[first]]

\* the argument of a service method, as the handler reads it
Received(method, value) == T!Argument(method, T!Arguments(method, value))

\* one answer of the service, as the client reads it
Answered(method, done) == T!Receive(method, T!Process(method, done))
-----------------------------------------------------------------------------
(* ThriftV2Handler *)

thrift_response(r) ==
  T!New(T!Response,
        [id |-> Given(r.id, ""), status |-> ResponseStatusToWire(r.status),
         payload |-> response_payload_to_thrift(r)])

thrift_error(id, e) == T!New(T!Response, [id |-> id, status |-> 2, payload |-> error_payload(e)])

ThriftCall(id, done) ==
  T!Returns(IF done.raised = None THEN thrift_response(done.items[1]) ELSE thrift_error(id, done.raised))

\* an exception takes the place of the items that were collected before it
ThriftCallServerStream(id, done) ==
  T!Returns(IF done.raised = None THEN [i \in DOMAIN done.items |-> thrift_response(done.items[i])]
            ELSE <<thrift_error(id, done.raised)>>)

ThriftCallClientStream(done) == ThriftCall("", done)

ThriftCallBidirectional(done) == ThriftCallServerStream("", done)
-----------------------------------------------------------------------------
(* ThriftV2TaskHandler and ThriftV2HealthHandler *)

ThriftSubmit(done) ==
  IF done.raised # None THEN raise_app_error(done.raised)
  ELSE T!Returns(T!New(T!TaskSubmitResponse,
                       [task_id |-> done.items[1].task_id,
                        status |-> TaskStatusToWire(done.items[1].status)]))

ThriftQuery(done) ==
  IF done.raised # None THEN raise_app_error(done.raised)
  ELSE T!Returns(T!New(T!TaskQueryResponse, [task |-> task_record_to_thrift(done.items[1])]))

ThriftCancel(done) ==
  IF done.raised # None THEN raise_app_error(done.raised)
  ELSE T!Returns(T!New(T!TaskCancelResponse,
                       [task_id |-> done.items[1].task_id,
                        status |-> TaskStatusToWire(done.items[1].status),
                        canceled |-> done.items[1].canceled]))

ThriftSubscribe(done) ==
  IF done.raised # None THEN raise_app_error(done.raised)
  ELSE T!Returns([i \in DOMAIN done.items |-> task_event_to_thrift(done.items[i])])

ThriftCheck(done) ==
  IF done.raised # None THEN raise_app_error(done.raised)
  ELSE T!Returns(health_response_to_thrift(done.items[1]))

ThriftWatch(done) ==
  IF done.raised # None THEN raise_app_error(done.raised)
  ELSE T!Returns([i \in DOMAIN done.items |-> health_response_to_thrift(done.items[i])])
-----------------------------------------------------------------------------
(* the client: what it makes of an answer *)

status_from_thrift(n) == IF n = 2 THEN "error" ELSE IF n = 3 THEN "partial" ELSE "success"

rpc_error_from_thrift(e) == IF e = None THEN RpcError(0) ELSE [RpcError(e.code) EXCEPT !.name = e.name]

response_from_thrift(v) ==
  [id |-> v.id, status |-> status_from_thrift(v.status),
   result |-> IF v.payload = None \/ v.payload.error # None THEN None ELSE v.payload.result_json,
   error |-> IF v.payload = None \/ v.payload.error = None THEN None
             ELSE rpc_error_from_thrift(v.payload.error)]

task_progress_from_thrift(p) == [current |-> p.current, total |-> p.total]

\* the field is called result, not result_json; the priority is the number of the wire
ClientRecord(v) ==
  [task_id |-> v.task_id, parent_task_id |-> v.parent_task_id,
   status |-> TaskStatusFromWire(v.status), priority |-> v.priority, attempt |-> v.attempt,
   max_attempts |-> v.max_attempts, result |-> None,
   error |-> IF v.error = None THEN None ELSE [RpcError(v.error.code) EXCEPT !.name = v.error.name],
   progress |-> Maybe(task_progress_from_thrift, v.progress),
   metadata |-> Given(v.metadata, <<>>), tags |-> Given(v.tags, <<>>)]

\* ... which must be one of a Priority
task_record_from_thrift(v) ==
  IF v.priority \in Priorities THEN T!Returns(ClientRecord(v))
  ELSE T!Raises(PythonError("ValidationError"))

health_response_from_thrift(v) ==
  [status |-> HealthStatusFromWire(v.status),
   services |-> IF NonEmpty(v.services)
                THEN [s \in DOMAIN v.services |-> HealthStatusFromWire(v.services[s])] ELSE None]

\* the caller of a unary method gets one item or an exception
One(answer, Convert(_)) ==
  IF answer.raised # None THEN Done(<<>>, answer.raised) ELSE Done(<<Convert(answer.value)>>, None)

Several(answer, Convert(_)) ==
  IF answer.raised # None THEN Done(<<>>, answer.raised)
  ELSE Done([i \in DOMAIN answer.value |-> Convert(answer.value[i])], None)
-----------------------------------------------------------------------------
(* ThriftTransport: what a method sends, as it arrives, and what it gives *)

thrift_call_arrives(r) ==
  LET v == Received(T!AduibRpcService.Call, request_to_thrift(r))
  IN  [request |-> request_from_thrift(v), tenant |-> thrift_tenant(v)]

thrift_call(id, done) ==
  One(Answered(T!AduibRpcService.Call, ThriftCall(id, done)), response_from_thrift)

thrift_call_server_stream_arrives(r) ==
  LET v == Received(T!AduibRpcService.CallServerStream, request_to_thrift(r))
  IN  [request |-> request_from_thrift(v), tenant |-> thrift_tenant(v)]

thrift_call_server_stream(id, done) ==
  Several(Answered(T!AduibRpcService.CallServerStream, ThriftCallServerStream(id, done)),
          response_from_thrift)

\* a stream of requests is sent as a list
thrift_call_client_stream_arrives(rs) ==
  LET vs == Received(T!AduibRpcService.CallClientStream, [i \in DOMAIN rs |-> request_to_thrift(rs[i])])
  IN  [requests |-> [i \in DOMAIN vs |-> request_from_thrift(vs[i])], tenant |-> thrift_tenant(vs[1])]

thrift_call_client_stream(done) ==
  One(Answered(T!AduibRpcService.CallClientStream, ThriftCallClientStream(done)), response_from_thrift)

thrift_call_bidirectional_arrives(rs) ==
  LET vs == Received(T!AduibRpcService.CallBidirectional, [i \in DOMAIN rs |-> request_to_thrift(rs[i])])
  IN  [requests |-> [i \in DOMAIN vs |-> request_from_thrift(vs[i])], tenant |-> thrift_tenant(vs[1])]

thrift_call_bidirectional(done) ==
  Several(Answered(T!AduibRpcService.CallBidirectional, ThriftCallBidirectional(done)),
          response_from_thrift)

\* the number of the priority is sent as it is
thrift_task_submit_arrives(s) ==
  task_submit_request_from_thrift(
    Received(T!TaskService.Submit,
             T!New(T!TaskSubmitRequest,
                   [target_method |-> s.target_method, params_json |-> s.params, priority |-> s.priority])))

thrift_task_submit(done) ==
  One(Answered(T!TaskService.Submit, ThriftSubmit(done)),
      LAMBDA v : [task_id |-> v.task_id, status |-> TaskStatusFromWire(v.status)])

thrift_task_query_arrives(q) ==
  task_query_request_from_thrift(
    Received(T!TaskService.Query, T!New(T!TaskQueryRequest, [task_id |-> q.task_id])))

thrift_task_query(done) ==
  LET answer == Answered(T!TaskService.Query, ThriftQuery(done))
  IN  IF answer.raised # None THEN Done(<<>>, answer.raised)
      ELSE One(task_record_from_thrift(answer.value.task), LAMBDA record : record)

thrift_task_cancel_arrives(c) ==
  task_cancel_request_from_thrift(
    Received(T!TaskService.Cancel,
             T!New(T!TaskCancelRequest, [task_id |-> c.task_id, reason |-> c.reason])))

thrift_task_cancel(done) ==
  One(Answered(T!TaskService.Cancel, ThriftCancel(done)),
      LAMBDA v : [task_id |-> v.task_id, status |-> TaskStatusFromWire(v.status),
                  canceled |-> v.canceled])

thrift_task_subscribe_arrives(s) ==
  task_subscribe_request_from_thrift(
    Received(T!TaskService.Subscribe,
             T!New(T!TaskSubscribeRequest, [task_id |-> s.task_id, events |-> OrNone(s.events)])))

\* the events before the first whose record cannot be made are given
thrift_task_subscribe(done) ==
  LET answer == Answered(T!TaskService.Subscribe, ThriftSubscribe(done))
      record(i) == task_record_from_thrift(answer.value[i].task)
      event(i) == [event |-> answer.value[i].event, task |-> record(i).value]
      good(n) == \A i \in 1..n : record(i).raised = None
      last == CHOOSE n \in 0..Len(answer.value) :
                good(n) /\ (n < Len(answer.value) => ~good(n + 1))
  IN  IF answer.raised # None THEN Done(<<>>, answer.raised)
      ELSE Done([i \in 1..last |-> event(i)],
                IF last < Len(answer.value) THEN record(last + 1).raised ELSE None)

thrift_health_check_arrives(h) ==
  health_request_from_thrift(
    Received(T!HealthService.Check, T!New(T!HealthCheckRequest, [service_name |-> h.service])))

thrift_health_check(done) ==
  One(Answered(T!HealthService.Check, ThriftCheck(done)), health_response_from_thrift)

thrift_health_watch_arrives(h) ==
  health_request_from_thrift(
    Received(T!HealthService.Watch, T!New(T!HealthCheckRequest, [service_name |-> h.service])))

thrift_health_watch(done) ==
  Several(Answered(T!HealthService.Watch, ThriftWatch(done)), health_response_from_thrift)
-----------------------------------------------------------------------------
(* by operation *)

\* int() of a tuple
ThriftRefuses(o, input) ==
  IF o = "task_submit" /\ input.priority = None THEN Done(<<>>, PythonError("TypeError")) ELSE None

ThriftArrival(o, input) ==
  CASE o = "call" -> Call(thrift_call_arrives(input))
    [] o = "call_server_stream" -> Call(thrift_call_server_stream_arrives(input))
    [] o = "call_client_stream" -> Collected(thrift_call_client_stream_arrives(input))
    [] o = "call_bidirectional" -> Collected(thrift_call_bidirectional_arrives(input))
    [] o = "task_submit" -> Arrived(thrift_task_submit_arrives(input))
    [] o = "task_query" -> Arrived(thrift_task_query_arrives(input))
    [] o = "task_cancel" -> Arrived(thrift_task_cancel_arrives(input))
    [] o = "task_subscribe" -> Arrived(thrift_task_subscribe_arrives(input))
    [] o = "health_check" -> Arrived(thrift_health_check_arrives(input))
    [] OTHER -> Arrived(thrift_health_watch_arrives(input))

ThriftAnswer(o, d) ==
  CASE o = "call" -> thrift_call("1", d)
    [] o = "call_server_stream" -> thrift_call_server_stream("1", d)
    [] o = "call_client_stream" -> thrift_call_client_stream(d)
    [] o = "call_bidirectional" -> thrift_call_bidirectional(d)
    [] o = "task_submit" -> thrift_task_submit(d)
    [] o = "task_query" -> thrift_task_query(d)
    [] o = "task_cancel" -> thrift_task_cancel(d)
    [] o = "task_subscribe" -> thrift_task_subscribe(d)
    [] o = "health_check" -> thrift_health_check(d)
    [] OTHER -> thrift_health_watch(d)
=============================================================================
