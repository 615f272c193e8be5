----------------------------- MODULE HttpTransport -----------------------------
(***************************************************************************)
(* A call over HTTP, as JSON-RPC (server/protocols/rpc/jsonrpc_app.py,     *)
(* request_handlers/jsonrpc_v2_handler.py, client/transports/jsonrpc.py)   *)
(* or REST (server/protocols/rest/fastapi_app.py, request_handlers/        *)
(* rest_v2_handler.py, client/transports/rest.py).  Both dump the models   *)
(* to JSON without what is None and validate them again, which keeps every *)
(* field; an AduibRpcResponse inside a result arrives as a dict.  The      *)
(* operators are named as in ThriftTransport.                              *)
(***************************************************************************)
EXTENDS Arrivals

ItemsOf(answer, Conversion(_)) ==
  Done([i \in DOMAIN answer.items |-> Conversion(answer.items[i])], answer.raised)

ThroughJson(v) == IF v = "object" THEN "dict" ELSE v

response_payload(r) == [r EXCEPT !.result = ThroughJson(@)]

record_payload(r) == [r EXCEPT !.result = ThroughJson(@)]

event_payload(e) == [e EXCEPT !.task = record_payload(@)]

Unchanged(v) == v
-----------------------------------------------------------------------------
(* utils/json_v2_utils.py: FromJson; a priority that is a list is no Priority *)

task_submit_request_from_json(s) ==
  IF s.priority = None THEN Done(<<>>, PythonError("ValidationError")) ELSE Done(<<s>>, None)

\* params is a model of JsonRpcParams, the first of the union with the most of its fields given:
\* a task_id alone makes a TaskQueryRequest, which is no TaskCancelRequest
task_cancel_request_from_json(c) ==
  IF c.reason = None THEN Done(<<>>, PythonError("ValidationError")) ELSE Done(<<c>>, None)

\* ... but is taken for a TaskSubscribeRequest
task_subscribe_request_from_json(s) == s
-----------------------------------------------------------------------------
(* DefaultServerContextBuilder and V2ServerContextBuilder: the tenant is taken from the headers of *)
(* the HTTP request, which the client does not set, and by the second also from the metadata       *)

jsonrpc_tenant(request) == None

rest_tenant(request) ==
  IF request.metadata # None /\ request.metadata.tenant_id # "" THEN request.metadata.tenant_id ELSE None
-----------------------------------------------------------------------------
(* JSONRPCV2Handler: an answer is a result, or an error with the code of the exception *)

jsonrpc_result(v) == [kind |-> "result", value |-> v]

jsonrpc_error(e) == [kind |-> "error", value |-> exception_to_rpc_error(e)]

JsonRpcUnary(done, payload(_)) ==
  IF done.raised # None THEN jsonrpc_error(done.raised) ELSE jsonrpc_result(payload(done.items[1]))

JsonRpcStream(done, payload(_)) ==
  LET sent == [i \in DOMAIN done.items |-> jsonrpc_result(payload(done.items[i]))]
  IN  IF done.raised = None THEN sent ELSE Append(sent, jsonrpc_error(done.raised))

JsonRpcCall(done) == JsonRpcUnary(done, response_payload)
JsonRpcCallServerStream(done) == JsonRpcStream(done, response_payload)
JsonRpcSubmit(done) == JsonRpcUnary(done, Unchanged)
JsonRpcQuery(done) == JsonRpcUnary(done, record_payload)
JsonRpcCancel(done) == JsonRpcUnary(done, Unchanged)
JsonRpcSubscribe(done) == JsonRpcStream(done, event_payload)
JsonRpcCheck(done) == JsonRpcUnary(done, Unchanged)
JsonRpcWatch(done) == JsonRpcStream(done, Unchanged)
-----------------------------------------------------------------------------
(* JsonRpcTransport *)

ClientJSONRPCError(error) == [class |-> "ClientJSONRPCError", code |-> error.code]

\* an error with a code of the protocol is a response, whose id is that of the envelope
raise_or_coerce_jsonrpc_error(error) ==
  IF error.code >= 1000 THEN Done(<<Failed("envelope", error)>>, None)
  ELSE Done(<<>>, ClientJSONRPCError(error))

jsonrpc_unary(answer) ==
  IF answer.kind = "error" THEN raise_or_coerce_jsonrpc_error(answer.value)
  ELSE Done(<<answer.value>>, None)

\* nothing is read after an error
jsonrpc_stream(answers, WhenError(_)) ==
  LET last == Before(Len(answers), {i \in DOMAIN answers : answers[i].kind = "error"})
      items == [i \in 1..last |-> answers[i].value]
  IN  IF last = Len(answers) THEN Done(items, None)
      ELSE LET end == WhenError(answers[last + 1].value)
           IN  Done(items \o end.items, end.raised)

\* the task and health methods raise whatever the code is
RaiseError(error) == Done(<<>>, ClientJSONRPCError(error))

jsonrpc_unary_or_raise(answer) ==
  IF answer.kind = "error" THEN RaiseError(answer.value) ELSE Done(<<answer.value>>, None)

jsonrpc_call_arrives(r) == [request |-> r, tenant |-> jsonrpc_tenant(r)]
jsonrpc_call(done) == jsonrpc_unary(JsonRpcCall(done))

jsonrpc_call_server_stream_arrives(r) == [request |-> r, tenant |-> jsonrpc_tenant(r)]
jsonrpc_call_server_stream(done) ==
  jsonrpc_stream(JsonRpcCallServerStream(done), raise_or_coerce_jsonrpc_error)

not_supported == Done(<<>>, PythonError("NotImplementedError"))

jsonrpc_task_submit_arrives(s) == task_submit_request_from_json(s)
jsonrpc_task_submit(done) == jsonrpc_unary_or_raise(JsonRpcSubmit(done))

jsonrpc_task_query(done) == jsonrpc_unary_or_raise(JsonRpcQuery(done))

jsonrpc_task_cancel_arrives(c) == task_cancel_request_from_json(c)
jsonrpc_task_cancel(done) == jsonrpc_unary_or_raise(JsonRpcCancel(done))

jsonrpc_task_subscribe_arrives(s) == task_subscribe_request_from_json(s)
jsonrpc_task_subscribe(done) == jsonrpc_stream(JsonRpcSubscribe(done), RaiseError)

jsonrpc_health_check(done) == jsonrpc_unary_or_raise(JsonRpcCheck(done))
jsonrpc_health_watch(done) == jsonrpc_stream(JsonRpcWatch(done), RaiseError)
-----------------------------------------------------------------------------
(* RESTV2Handler and the routes: a response that is an error sets the status of the HTTP response *)

is_error_response(r) == r.error # None \/ r.status = "error"

http_response(r) ==
  [status |-> IF r.status = "error" /\ r.error # None THEN error_code_to_http_status(r.error.code) ELSE 200,
   body |-> response_payload(r)]

RestCall(id, done) ==
  http_response(IF done.raised = None THEN done.items[1]
                ELSE Failed(id, exception_to_rpc_error(done.raised)))

\* the stream ends with its first error
RestCallServerStream(id, done) ==
  LET items == done.items
      n == Before(Len(items), {i \in DOMAIN items : is_error_response(items[i])})
      payloads(last) == [i \in 1..last |-> response_payload(items[i])]
  IN  CASE n < Len(items) -> payloads(n + 1)
        [] n = Len(items) /\ done.raised # None ->
             Append(payloads(n), Failed(id, exception_to_rpc_error(done.raised)))
        [] OTHER -> payloads(n)

RestTaskUnary(done, payload(_)) ==
  IF done.raised # None
  THEN [status |-> error_code_to_http_status(map_exception_to_error_code(done.raised)), body |-> None]
  ELSE [status |-> 200, body |-> payload(done.items[1])]

RestSubmit(done) == RestTaskUnary(done, Unchanged)
RestQuery(done) == RestTaskUnary(done, record_payload)
RestCancel(done) == RestTaskUnary(done, Unchanged)
RestCheck(done) == RestTaskUnary(done, Unchanged)

\* an error is an AduibRpcResponse among the events
RestSubscribe(done) == ItemsOf(done, event_payload)
RestWatch(done) == done
-----------------------------------------------------------------------------
(* RestTransport *)

ClientHTTPError(status) == [class |-> "ClientHTTPError", code |-> status]

\* raise_for_status
send_request(response) ==
  IF response.status >= 400 THEN Done(<<>>, ClientHTTPError(response.status))
  ELSE Done(<<response.body>>, None)

events_ofIgnoringErrors(answer) == Done(answer.items, None)  \* mutant of events_of

\* an error in place of an event is no TaskEvent and no HealthCheckResponse
events_of(answer) ==
  IF answer.raised = None THEN answer ELSE Done(answer.items, PythonError("ValidationError"))

rest_call_arrives(r) == [request |-> r, tenant |-> rest_tenant(r)]
rest_call(id, done) == send_request(RestCall(id, done))

rest_call_server_stream_arrives(r) == [request |-> r, tenant |-> rest_tenant(r)]
rest_call_server_stream(id, done) == Done(RestCallServerStream(id, done), None)

rest_task_submit_arrives(s) == task_submit_request_from_json(s)
rest_task_submit(done) == send_request(RestSubmit(done))

rest_task_query(done) == send_request(RestQuery(done))
rest_task_cancel(done) == send_request(RestCancel(done))
rest_task_subscribe(done) == events_of(RestSubscribe(done))
rest_health_check(done) == send_request(RestCheck(done))
rest_health_watch(done) == events_of(RestWatch(done))
-----------------------------------------------------------------------------
(* by operation *)

\* the methods that JSON-RPC and REST do not have
HttpRefuses(o, input) ==
  IF o \in {"call_client_stream", "call_bidirectional"} THEN not_supported ELSE None

JsonRpcArrival(o, input) ==
  CASE o = "call" -> Call(jsonrpc_call_arrives(input))
    [] o = "call_server_stream" -> Call(jsonrpc_call_server_stream_arrives(input))
    [] o = "task_submit" -> Converted(jsonrpc_task_submit_arrives(input))
    [] o = "task_cancel" -> Converted(jsonrpc_task_cancel_arrives(input))
    [] o = "task_subscribe" -> Arrived(jsonrpc_task_subscribe_arrives(input))
    [] OTHER -> Arrived(input)

JsonRpcAnswer(o, d) ==
  CASE o = "call" -> jsonrpc_call(d)
    [] o = "call_server_stream" -> jsonrpc_call_server_stream(d)
    [] o = "task_submit" -> jsonrpc_task_submit(d)
    [] o = "task_query" -> jsonrpc_task_query(d)
    [] o = "task_cancel" -> jsonrpc_task_cancel(d)
    [] o = "task_subscribe" -> jsonrpc_task_subscribe(d)
    [] o = "health_check" -> jsonrpc_health_check(d)
    [] OTHER -> jsonrpc_health_watch(d)

RestArrival(o, input) ==
  CASE o = "call" -> Call(rest_call_arrives(input))
    [] o = "call_server_stream" -> Call(rest_call_server_stream_arrives(input))
    [] o = "task_submit" -> Converted(rest_task_submit_arrives(input))
    [] OTHER -> Arrived(input)

RestAnswer(o, d) ==
  CASE o = "call" -> rest_call("1", d)
    [] o = "call_server_stream" -> rest_call_server_stream("1", d)
    [] o = "task_submit" -> rest_task_submit(d)
    [] o = "task_query" -> rest_task_query(d)
    [] o = "task_cancel" -> rest_task_cancel(d)
    [] o = "task_subscribe" -> rest_task_subscribe(d)
    [] o = "health_check" -> rest_health_check(d)
    [] OTHER -> rest_health_watch(d)
=============================================================================
