---------------------------- MODULE GrpcConversions ----------------------------
(***************************************************************************)
(* utils/grpc_v2_utils.py (FromProto and ToProto): the messages of the     *)
(* gRPC wire.  A protobuf message is a record: a number that is not set is *)
(* 0, a text "", a list or a map empty; an optional field that is not set  *)
(* (HasField is false) is None.                                            *)
(*                                                                         *)
(* A value goes as a protobuf Value, in which every number is a double;    *)
(* "object" is a value that cannot become one.                             *)
(***************************************************************************)
EXTENDS Protocol

CanBeValue(v) == v # "object"

value_to_proto(v) == IF v = "ints" THEN "doubles" ELSE v

\* MessageToDict leaves the numbers what they are
value_from_proto(v) == v

Convert(Conversion(_), v) == IF v = None THEN None ELSE Conversion(v)

IfAny(m) == IF m # None /\ DOMAIN m # {} THEN m ELSE None
-----------------------------------------------------------------------------
(* ToProto *)

trace_context_to_proto(t) == [t EXCEPT !.baggage = Given(@, <<>>)]

auth_context_to_proto(a) == [a EXCEPT !.scheme = AuthSchemeToWire(@), !.roles = Given(@, <<>>)]

request_metadata_to_proto(m) ==
  [m EXCEPT !.auth = Convert(auth_context_to_proto, @), !.headers = Given(@, <<>>)]

retry_config_to_proto(r) ==
  [max_attempts |-> r.max_attempts, initial_delay_ms |-> r.initial_delay_ms,
   retryable_codes |-> Given(r.retryable_codes, {})]

qos_config_to_proto(q) ==
  [priority |-> PriorityToWire(q.priority), timeout_ms |-> q.timeout_ms,
   retry |-> Convert(retry_config_to_proto, q.retry), idempotency_key |-> q.idempotency_key]

\* _fill_struct: the data as a protobuf Struct, which is present even when it is empty
fill_struct(data) == Convert(value_to_proto, data)

request_to_proto(r) ==
  [id |-> Given(r.id, ""), method |-> r.method, name |-> r.name, data |-> fill_struct(r.data),
   trace_context |-> Convert(trace_context_to_proto, r.trace_context),
   metadata |-> Convert(request_metadata_to_proto, r.metadata),
   qos |-> Convert(qos_config_to_proto, r.qos)]

\* of an error only the code, the name and the message are sent
response_to_proto(r) ==
  [id |-> Given(r.id, ""), status |-> ResponseStatusToWire(r.status),
   payload |-> CASE IsSuccess(r) -> [kind |-> "result", value |-> value_to_proto(r.result)]
                 [] ~IsSuccess(r) /\ r.error # None ->
                      [kind |-> "error", value |-> [r.error EXCEPT !.details = <<>>]]
                 [] OTHER -> None]

rpc_error_to_proto(e) == [e EXCEPT !.details = Given(@, <<>>)]

task_progress_to_proto(p) == p

\* a result that cannot become a value is sent as its text
task_record_to_proto(r) ==
  [r EXCEPT !.status = TaskStatusToWire(@), !.priority = PriorityToWire(@),
            !.result = IF @ = None THEN None ELSE IF CanBeValue(@) THEN value_to_proto(@) ELSE "text",
            !.error = Convert(rpc_error_to_proto, @), !.progress = Convert(task_progress_to_proto, @),
            !.metadata = Given(@, <<>>), !.tags = Given(@, <<>>)]

task_event_to_proto(e) == [e EXCEPT !.task = task_record_to_proto(@)]

health_response_to_proto(h) ==
  [status |-> HealthStatusToWire(h.status),
   services |-> IF h.services = None THEN <<>>
                ELSE [s \in DOMAIN h.services |-> HealthStatusToWire(h.services[s])]]

\* from_proto takes the member for a number of the wire; its default, a tuple, is no number
task_submit_request_to_proto(s) ==
  [target_method |-> s.target_method, params |-> s.params,
   priority |-> IF s.priority = None THEN Normal ELSE PriorityFromWire(s.priority)]
-----------------------------------------------------------------------------
(* FromProto *)

trace_context_from_proto(v) == [v EXCEPT !.baggage = IfAny(@)]

auth_context_from_proto(v) == [v EXCEPT !.scheme = AuthSchemeFromWire(@), !.roles = IfAny(@)]

request_metadata_from_proto(v) ==
  [v EXCEPT !.auth = Convert(auth_context_from_proto, @), !.headers = IfAny(@)]

\* 0 is taken for a number that was not given, and no codes for no list of codes
retry_policy_from_proto(v) ==
  LET number(n, default) == IF n = 0 THEN default ELSE n
  IN  [DefaultRetry EXCEPT
         !.max_attempts = number(v.max_attempts, @),
         !.initial_delay_ms = number(v.initial_delay_ms, @),
         !.retryable_codes = IF v.retryable_codes = {} THEN None ELSE v.retryable_codes]

qos_config_from_proto(v) ==
  [DefaultQos EXCEPT
     !.priority = PriorityFromWire(v.priority), !.timeout_ms = v.timeout_ms,
     !.retry = Convert(retry_policy_from_proto, v.retry), !.idempotency_key = v.idempotency_key]

request_from_proto(v) ==
  [NewRequest EXCEPT
     !.id = v.id, !.method = v.method, !.name = v.name, !.data = Convert(value_from_proto, v.data),
     !.trace_context = Convert(trace_context_from_proto, v.trace_context),
     !.metadata = Convert(request_metadata_from_proto, v.metadata),
     !.qos = Convert(qos_config_from_proto, v.qos)]

\* HasField is asked for timeout_ms, which the message does not have
task_submit_request_from_proto(v) == Done(<<>>, PythonError("ValueError"))

task_query_request_from_proto(v) == [task_id |-> v.task_id]

task_cancel_request_from_proto(v) == [task_id |-> v.task_id, reason |-> v.reason]

task_subscribe_request_from_proto(v) == [task_id |-> v.task_id, events |-> IfAny(v.events)]

health_request_from_proto(v) == [service |-> v.service]

rpc_error_from_proto(v) ==
  [v EXCEPT !.name = IF @ = "" THEN "UNKNOWN" ELSE @, !.details = IfAny(@)]

task_progress_from_proto(v) == v

task_record_from_proto(v) ==
  [v EXCEPT !.status = TaskStatusFromWire(@), !.priority = PriorityFromWire(@),
            !.result = Convert(value_from_proto, @), !.error = Convert(rpc_error_from_proto, @),
            !.progress = Convert(task_progress_from_proto, @), !.metadata = IfAny(@), !.tags = IfAny(@)]

response_from_proto(v) ==
  [id |-> v.id, status |-> ResponseStatusFromWire(v.status),
   result |-> IF v.payload # None /\ v.payload.kind = "result" THEN value_from_proto(v.payload.value)
              ELSE None,
   error |-> IF v.payload # None /\ v.payload.kind = "error" THEN rpc_error_from_proto(v.payload.value)
             ELSE None]

health_response_from_proto(v) ==
  [status |-> HealthStatusFromWire(v.status),
   services |-> IF DOMAIN v.services = {} THEN None
                ELSE [s \in DOMAIN v.services |-> HealthStatusFromWire(v.services[s])]]

task_submit_response_from_proto(v) == [task_id |-> v.task_id, status |-> TaskStatusFromWire(v.status)]
=============================================================================
