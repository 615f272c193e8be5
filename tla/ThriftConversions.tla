--------------------------- MODULE ThriftConversions ---------------------------
(***************************************************************************)
(* utils/thrift_v2_utils.py (FromThrift and ToThrift), the handlers of     *)
(* server/request_handlers/thrift_v2_handler.py and the conversions of     *)
(* client/transports/thrift.py: what a request becomes on its way to the   *)
(* request handler over Thrift, and what its outcome becomes on the way    *)
(* back.                                                                   *)
(*                                                                         *)
(* A text that holds JSON is written as the value it stands for; a value   *)
(* json.dumps cannot write is "object".  Times and messages are left out.  *)
(* A conversion that raises is an outcome [value, raised].                 *)
(***************************************************************************)
EXTENDS Protocol

T == INSTANCE ThriftServices

Maybe(Convert(_), v) == IF v = None THEN None ELSE Convert(v)

NonEmpty(m) == m # None /\ DOMAIN m # {}

\* a list or a map that is absent or empty becomes None
OrNone(m) == IF NonEmpty(m) THEN m ELSE None

json_dumps_safe(v) == IF v = "object" THEN "_unserializable" ELSE v
-----------------------------------------------------------------------------
(* ToThrift *)

trace_context_to_thrift(t) ==
  T!New(T!TraceContext,
        [trace_id |-> t.trace_id, span_id |-> t.span_id, sampled |-> t.sampled,
         parent_span_id |-> t.parent_span_id, baggage |-> Given(t.baggage, <<>>)])

auth_context_to_thrift(a) ==
  T!New(T!AuthContext,
        [scheme |-> AuthSchemeToWire(a.scheme), credentials |-> a.credentials,
         principal |-> a.principal, roles |-> OrNone(a.roles)])

request_metadata_to_thrift(m) ==
  T!New(T!RequestMetadata,
        [client_id |-> m.client_id, auth |-> Maybe(auth_context_to_thrift, m.auth),
         tenant_id |-> m.tenant_id, headers |-> OrNone(m.headers), long_task |-> m.long_task,
         long_task_method |-> m.long_task_method, long_task_timeout |-> m.long_task_timeout])

retry_config_to_thrift(r) ==
  T!New(T!RetryConfig,
        [max_attempts |-> r.max_attempts, initial_delay_ms |-> r.initial_delay_ms,
         retryable_codes |-> IF r.retryable_codes \in {None, {}} THEN None ELSE r.retryable_codes])

qos_config_to_thrift(q) ==
  T!New(T!QosConfig,
        [priority |-> PriorityToWire(q.priority), timeout_ms |-> q.timeout_ms,
         retry_config |-> Maybe(retry_config_to_thrift, q.retry),
         idempotency_key |-> q.idempotency_key])

request_to_thrift(r) ==
  T!New(T!Request,
        [id |-> Given(r.id, ""), method |-> r.method, name |-> r.name,
         data_json |-> json_dumps_safe(Given(r.data, "empty")),
         trace_context |-> Maybe(trace_context_to_thrift, r.trace_context),
         metadata |-> Maybe(request_metadata_to_thrift, r.metadata),
         qos |-> Maybe(qos_config_to_thrift, r.qos)])

\* model_dump has made the details dicts, which have no attributes
error_detail_to_thrift(d) == T!New(T!ErrorDetail, [type |-> "", reason |-> "", metadata |-> <<>>])

rpc_error_to_thrift(e) ==
  T!New(T!RpcError,
        [code |-> e.code, name |-> e.name,
         details |-> IF NonEmpty(e.details)
                     THEN [i \in DOMAIN e.details |-> error_detail_to_thrift(e.details[i])]
                     ELSE None])

task_progress_to_thrift(p) == T!New(T!TaskProgress, [current |-> p.current, total |-> p.total])

task_record_to_thrift(r) ==
  T!New(T!TaskRecord,
        [task_id |-> r.task_id, parent_task_id |-> r.parent_task_id,
         status |-> TaskStatusToWire(r.status), priority |-> PriorityToWire(r.priority),
         attempt |-> r.attempt, max_attempts |-> r.max_attempts,
         result |-> Maybe(json_dumps_safe, r.result), error |-> Maybe(rpc_error_to_thrift, r.error),
         progress |-> Maybe(task_progress_to_thrift, r.progress), metadata |-> OrNone(r.metadata),
         tags |-> OrNone(r.tags)])

task_event_to_thrift(e) ==
  T!New(T!TaskEvent, [event |-> e.event, task |-> task_record_to_thrift(e.task)])

response_payload_to_thrift(r) ==
  IF IsSuccess(r) THEN T!New(T!ResponsePayload, [result_json |-> json_dumps_safe(r.result)])
  ELSE T!New(T!ResponsePayload,
             [error |-> rpc_error_to_thrift(Given(r.error, RpcError(0)))])

error_payload(e) ==
  T!New(T!ResponsePayload, [error |-> rpc_error_to_thrift(exception_to_rpc_error(e))])

raise_app_error(e) == T!Raises(T!TApplicationException("INTERNAL_ERROR"))

health_response_to_thrift(h) ==
  T!New(T!HealthCheckResponse,
        [status |-> HealthStatusToWire(h.status),
         services |-> IF h.services = None THEN <<>>
                      ELSE [s \in DOMAIN h.services |-> HealthStatusToWire(h.services[s])]])
-----------------------------------------------------------------------------
(* FromThrift *)

trace_context_from_thrift(v) ==
  [trace_id |-> Given(v.trace_id, ""), span_id |-> Given(v.span_id, ""),
   sampled |-> v.sampled = TRUE, parent_span_id |-> v.parent_span_id, baggage |-> OrNone(v.baggage)]

auth_context_from_thrift(v) ==
  [scheme |-> AuthSchemeFromWire(v.scheme), credentials |-> v.credentials,
   principal |-> v.principal, roles |-> OrNone(v.roles)]

request_metadata_from_thrift(v) ==
  [client_id |-> v.client_id, auth |-> Maybe(auth_context_from_thrift, v.auth),
   tenant_id |-> v.tenant_id, headers |-> OrNone(v.headers), long_task |-> v.long_task = TRUE,
   long_task_method |-> v.long_task_method, long_task_timeout |-> v.long_task_timeout]

\* "number or default": 0 is taken for a number that was not given
retry_policy_from_thrift(v) ==
  LET number(n, default) == IF n \in {None, 0} THEN default ELSE n
  IN  [DefaultRetry EXCEPT
         !.max_attempts = number(v.max_attempts, @),
         !.initial_delay_ms = number(v.initial_delay_ms, @),
         !.retryable_codes = IF v.retryable_codes \in {None, {}} THEN None ELSE v.retryable_codes]

qos_config_from_thrift(v) ==
  [DefaultQos EXCEPT
     !.priority = PriorityFromWire(v.priority), !.timeout_ms = v.timeout_ms,
     !.retry = Maybe(retry_policy_from_thrift, v.retry_config),
     !.idempotency_key = v.idempotency_key]

\* a text that is absent, empty or no JSON is read as {}
safe_json_loads(v) == IF v \in {None, "", "broken"} THEN "empty" ELSE v

request_from_thrift(v) ==
  [NewRequest EXCEPT
     !.id = v.id, !.method = v.method, !.name = v.name, !.data = safe_json_loads(v.data_json),
     !.trace_context = Maybe(trace_context_from_thrift, v.trace_context),
     !.metadata = Maybe(request_metadata_from_thrift, v.metadata),
     !.qos = Maybe(qos_config_from_thrift, v.qos)]

task_submit_request_from_thrift(v) ==
  [target_method |-> Given(v.target_method, ""),
   params |-> v.params_json,
   priority |-> IF v.priority = None THEN None ELSE PriorityFromWire(v.priority)]

task_query_request_from_thrift(v) == [task_id |-> Given(v.task_id, "")]

task_cancel_request_from_thrift(v) == [task_id |-> Given(v.task_id, ""), reason |-> v.reason]

task_subscribe_request_from_thrift(v) == [task_id |-> Given(v.task_id, ""), events |-> OrNone(v.events)]

health_request_from_thrift(v) == [service |-> IF v.service_name = "" THEN None ELSE v.service_name]
=============================================================================
