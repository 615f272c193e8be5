----------------------------- MODULE GrpcTransport -----------------------------
(***************************************************************************)
(* A call over gRPC: the handlers of server/request_handlers/              *)
(* grpc_v2_handler.py and the methods of client/transports/grpc.py.        *)
(* The operators are named as in ThriftTransport.  A servicer method that  *)
(* calls context.abort gives the client an AioRpcError with that status.   *)
(***************************************************************************)
EXTENDS GrpcConversions, Arrivals

\* mutant of grpc_tenant: only the connection is asked
grpc_tenantOfConnection(request) == None

\* _attach_request_metadata; the headers are those of the connection, not of the request
grpc_tenant(request) ==
  IF request.metadata # None /\ request.metadata.tenant_id \notin {None, ""}
  THEN request.metadata.tenant_id ELSE None

\* json_format refuses a value it cannot represent
response_or_error(id, r) ==
  IF IsSuccess(r) /\ ~CanBeValue(r.result)
  THEN response_to_proto(Failed(id, exception_to_rpc_error(PythonError("ParseError"))))
  ELSE response_to_proto(r)

error_response(id, e) == response_to_proto(Failed(id, exception_to_rpc_error(e)))

abort(e) ==
  [class |-> "AioRpcError",
   code |-> error_code_to_grpc_status(map_exception_to_error_code(e))]
-----------------------------------------------------------------------------
(* GrpcV2Handler *)

GrpcCall(id, done) ==
  Done(<<IF done.raised = None THEN response_or_error(id, done.items[1]) ELSE error_response(id, done.raised)>>,
       None)

\* mutant of GrpcCallServerStream: an exception takes the place of the items before it
GrpcCallServerStreamOrError(id, done) ==
  Done(IF done.raised # None THEN <<error_response(id, done.raised)>>
       ELSE [i \in DOMAIN done.items |-> response_or_error(id, done.items[i])], None)

\* the items up to the first that cannot be sent, or that is an exception, then an error
GrpcCallServerStream(id, done) ==
  LET bad == {i \in DOMAIN done.items : IsSuccess(done.items[i]) /\ ~CanBeValue(done.items[i].result)}
      last == Before(Len(done.items), bad)
      sent == [i \in 1..last |-> response_to_proto(done.items[i])]
  IN  Done(CASE last < Len(done.items) -> Append(sent, response_or_error(id, done.items[last + 1]))
             [] last = Len(done.items) /\ done.raised # None -> Append(sent, error_response(id, done.raised))
             [] OTHER -> sent,
           None)

GrpcCallClientStream(id, done) == GrpcCall(id, done)

GrpcCallBidirectional(id, done) == GrpcCallServerStream(id, done)
-----------------------------------------------------------------------------
(* GrpcV2TaskHandler and GrpcV2HealthHandler *)

GrpcSubmit(done) ==
  IF done.raised # None THEN Done(<<>>, abort(done.raised))
  ELSE Done(<<[done.items[1] EXCEPT !.status = TaskStatusToWire(@)]>>, None)

GrpcQuery(done) ==
  IF done.raised # None THEN Done(<<>>, abort(done.raised))
  ELSE Done(<<task_record_to_proto(done.items[1])>>, None)

GrpcCancel(done) ==
  IF done.raised # None THEN Done(<<>>, abort(done.raised))
  ELSE Done(<<[done.items[1] EXCEPT !.status = TaskStatusToWire(@)]>>, None)

GrpcSubscribe(done) ==
  Done([i \in DOMAIN done.items |-> task_event_to_proto(done.items[i])],
       IF done.raised = None THEN None ELSE abort(done.raised))

GrpcCheck(done) ==
  IF done.raised # None THEN Done(<<>>, abort(done.raised))
  ELSE Done(<<health_response_to_proto(done.items[1])>>, None)

GrpcWatch(done) ==
  Done([i \in DOMAIN done.items |-> health_response_to_proto(done.items[i])],
       IF done.raised = None THEN None ELSE abort(done.raised))
-----------------------------------------------------------------------------
(* GrpcTransport *)

Each(answer, Conversion(_)) ==
  Done([i \in DOMAIN answer.items |-> Conversion(answer.items[i])], answer.raised)

grpc_call_arrives(r) ==
  LET request == request_from_proto(request_to_proto(r))
  IN  [request |-> request, tenant |-> grpc_tenant(request)]

grpc_call(id, done) == Each(GrpcCall(id, done), response_from_proto)

grpc_call_server_stream_arrives(r) ==
  LET request == request_from_proto(request_to_proto(r))
  IN  [request |-> request, tenant |-> grpc_tenant(request)]

grpc_call_server_stream(id, done) == Each(GrpcCallServerStream(id, done), response_from_proto)

grpc_call_client_stream_arrives(rs) ==
  LET requests == [i \in DOMAIN rs |-> request_from_proto(request_to_proto(rs[i]))]
  IN  [requests |-> requests, tenant |-> grpc_tenant(requests[1])]

grpc_call_client_stream(id, done) == Each(GrpcCallClientStream(id, done), response_from_proto)

grpc_call_bidirectional_arrives(rs) ==
  LET requests == [i \in DOMAIN rs |-> request_from_proto(request_to_proto(rs[i]))]
  IN  [requests |-> requests, tenant |-> grpc_tenant(requests[1])]

grpc_call_bidirectional(id, done) == Each(GrpcCallBidirectional(id, done), response_from_proto)

grpc_task_submit_arrives(s) == task_submit_request_from_proto(task_submit_request_to_proto(s))

grpc_task_submit(done) == Each(GrpcSubmit(done), task_submit_response_from_proto)

grpc_task_query_arrives(q) == task_query_request_from_proto([task_id |-> q.task_id])

grpc_task_query(done) == Each(GrpcQuery(done), task_record_from_proto)

grpc_task_cancel_arrives(c) ==
  task_cancel_request_from_proto([task_id |-> c.task_id, reason |-> c.reason])

grpc_task_cancel(done) ==
  Each(GrpcCancel(done), LAMBDA v : [v EXCEPT !.status = TaskStatusFromWire(@)])

grpc_task_subscribe_arrives(s) ==
  task_subscribe_request_from_proto([task_id |-> s.task_id, events |-> Given(s.events, <<>>)])

grpc_task_subscribe(done) ==
  Each(GrpcSubscribe(done), LAMBDA v : [v EXCEPT !.task = task_record_from_proto(@)])

\* msg.service = None is accepted by no text field
CanCheck(h) == h.service # None

grpc_health_check_arrives(h) == health_request_from_proto([service |-> h.service])

grpc_health_check(done) == Each(GrpcCheck(done), health_response_from_proto)

grpc_health_watch_arrives(h) == health_request_from_proto([service |-> h.service])

grpc_health_watch(done) == Each(GrpcWatch(done), health_response_from_proto)
-----------------------------------------------------------------------------
(* by operation *)

GrpcRefuses(o, input) ==
  IF o \in {"health_check", "health_watch"} /\ ~CanCheck(input) THEN Done(<<>>, PythonError("TypeError")) ELSE None

GrpcArrival(o, input) ==
  CASE o = "call" -> Call(grpc_call_arrives(input))
    [] o = "call_server_stream" -> Call(grpc_call_server_stream_arrives(input))
    [] o = "call_client_stream" -> Collected(grpc_call_client_stream_arrives(input))
    [] o = "call_bidirectional" -> Collected(grpc_call_bidirectional_arrives(input))
    [] o = "task_submit" -> Converted(grpc_task_submit_arrives(input))
    [] o = "task_query" -> Arrived(grpc_task_query_arrives(input))
    [] o = "task_cancel" -> Arrived(grpc_task_cancel_arrives(input))
    [] o = "task_subscribe" -> Arrived(grpc_task_subscribe_arrives(input))
    [] o = "health_check" -> Arrived(grpc_health_check_arrives(input))
    [] OTHER -> Arrived(grpc_health_watch_arrives(input))

GrpcAnswer(o, d) ==
  CASE o = "call" -> grpc_call("1", d)
    [] o = "call_server_stream" -> grpc_call_server_stream("1", d)
    [] o = "call_client_stream" -> grpc_call_client_stream("1", d)
    [] o = "call_bidirectional" -> grpc_call_bidirectional("1", d)
    [] o = "task_submit" -> grpc_task_submit(d)
    [] o = "task_query" -> grpc_task_query(d)
    [] o = "task_cancel" -> grpc_task_cancel(d)
    [] o = "task_subscribe" -> grpc_task_subscribe(d)
    [] o = "health_check" -> grpc_health_check(d)
    [] OTHER -> grpc_health_watch(d)
=============================================================================
