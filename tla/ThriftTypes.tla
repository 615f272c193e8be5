------------------------------ MODULE ThriftTypes ------------------------------
(***************************************************************************)
(* thrift_v2/ttypes.py: the structures of the Thrift wire.                 *)
(*                                                                         *)
(* A structure is the set of its rows: field number, wire type, name and,  *)
(* for a structure or a list of structures, the rows of the element.  Each *)
(* class of the file has a read and a write made from its rows in the same *)
(* way; they are Read and Write here.  A message on the wire is a function *)
(* from the numbers of the fields that are present.  Enumerations travel   *)
(* as I32 (their numbers are in Protocol).                                 *)
(***************************************************************************)
EXTENDS Naturals, Sequences, FiniteSets

CONSTANT None

Field(id, type, name, of) == [id |-> id, type |-> type, name |-> name, of |-> of]

Bool(id, name)   == Field(id, "BOOL", name, {})
Double(id, name) == Field(id, "DOUBLE", name, {})
I32(id, name)    == Field(id, "I32", name, {})
I64(id, name)    == Field(id, "I64", name, {})
String(id, name) == Field(id, "STRING", name, {})
Map(id, name)    == Field(id, "MAP", name, {})
Texts(id, name)  == Field(id, "LIST", name, {})
Numbers(id, name) == Field(id, "LIST", name, {})
Struct(id, name, of)  == Field(id, "STRUCT", name, of)
Structs(id, name, of) == Field(id, "LIST", name, of)

NamesOf(struct) == {f.name : f \in struct}

FieldOf(struct, id) == CHOOSE f \in struct : f.id = id

\* the constructor: what is not given is None
New(struct, given) ==
  [n \in NamesOf(struct) |-> IF n \in DOMAIN given THEN given[n] ELSE None]

\* an object without the fields that are None
RECURSIVE Write(_, _)
Write(struct, obj) ==
  [id \in {f.id : f \in {g \in struct : obj[g.name] # None}} |->
     LET f == FieldOf(struct, id)
         v == obj[f.name]
     IN  [type  |-> f.type,
          value |-> CASE f.of = {} -> v
                      [] f.of # {} /\ f.type = "STRUCT" -> Write(f.of, v)
                      [] OTHER -> [i \in DOMAIN v |-> Write(f.of, v[i])]]]

\* a field that is unknown, or whose type is another than expected, is skipped
RECURSIVE Read(_, _)
Read(struct, wire) ==
  New(struct,
      [n \in {f.name : f \in {g \in struct : g.id \in DOMAIN wire /\ wire[g.id].type = g.type}} |->
         LET f == CHOOSE g \in struct : g.name = n
             v == wire[f.id].value
         IN  CASE f.of = {} -> v
               [] f.of # {} /\ f.type = "STRUCT" -> Read(f.of, v)
               [] OTHER -> [i \in DOMAIN v |-> Read(f.of, v[i])]])
-----------------------------------------------------------------------------
TraceContext ==
  {String(1, "trace_id"), String(2, "span_id"), String(3, "parent_span_id"), Bool(4, "sampled"),
   Map(5, "baggage")}

ErrorDetail ==
  {String(1, "type"), String(2, "field"), String(3, "reason"), Map(4, "metadata")}

DebugInfo ==
  {String(1, "stack_trace"), String(2, "internal_message"), I64(3, "timestamp_ms")}

RpcError ==
  {I32(1, "code"), String(2, "name"), String(3, "message"), Structs(4, "details", ErrorDetail),
   Struct(5, "debug", DebugInfo)}

AuthContext ==
  {I32(1, "scheme"), String(2, "credentials"), String(3, "principal"), Texts(4, "roles")}

RequestMetadata ==
  {I64(1, "timestamp_ms"), String(2, "client_id"), String(3, "client_version"),
   Struct(4, "auth", AuthContext), String(5, "tenant_id"), Map(9, "headers"), Bool(10, "long_task"),
   String(11, "long_task_method"), I32(12, "long_task_timeout")}

ResponseMetadata ==
  {I64(1, "timestamp_ms"), I64(2, "duration_ms"), String(3, "server_id"),
   String(4, "server_version")}

RetryConfig ==
  {I32(1, "max_attempts"), I64(2, "initial_delay_ms"), I64(3, "max_delay_ms"),
   Double(4, "backoff_multiplier"), Numbers(5, "retryable_codes")}

QosConfig ==
  {I32(1, "priority"), I64(2, "timeout_ms"), Struct(3, "retry_config", RetryConfig),
   String(4, "idempotency_key")}

Request ==
  {String(1, "aduib_rpc"), String(2, "id"), String(3, "method"), String(4, "name"),
   String(5, "data_json"), Struct(6, "trace_context", TraceContext),
   Struct(7, "metadata", RequestMetadata), Struct(8, "qos", QosConfig)}

ResponsePayload == {String(1, "result_json"), Struct(2, "error", RpcError)}

Response ==
  {String(1, "aduib_rpc"), String(2, "id"), I32(3, "status"), Struct(4, "payload", ResponsePayload),
   Struct(5, "trace_context", TraceContext), Struct(6, "metadata", ResponseMetadata)}
-----------------------------------------------------------------------------
TaskProgress ==
  {I64(1, "current"), I64(2, "total"), String(3, "message"), Double(4, "percentage")}

TaskRecord ==
  {String(1, "task_id"), String(2, "parent_task_id"), I32(3, "status"), I32(4, "priority"),
   I64(5, "created_at_ms"), I64(6, "scheduled_at_ms"), I64(7, "started_at_ms"),
   I64(8, "completed_at_ms"), I32(9, "attempt"), I32(10, "max_attempts"),
   I64(11, "next_retry_at_ms"), String(12, "result"), Struct(13, "error", RpcError),
   Struct(14, "progress", TaskProgress), Map(15, "metadata"), Texts(16, "tags")}

TaskSubmitRequest == {String(1, "target_method"), String(2, "params_json"), I32(3, "priority")}

TaskSubmitResponse == {String(1, "task_id"), I32(2, "status"), I64(3, "created_at_ms")}

TaskQueryRequest == {String(1, "task_id")}

TaskQueryResponse == {Struct(1, "task", TaskRecord)}

TaskCancelRequest == {String(1, "task_id"), String(2, "reason")}

TaskCancelResponse == {String(1, "task_id"), I32(2, "status"), Bool(3, "canceled")}

TaskSubscribeRequest == {String(1, "task_id"), Texts(2, "events")}

TaskEvent == {String(1, "event"), Struct(2, "task", TaskRecord), I64(3, "timestamp_ms")}

HealthCheckRequest == {String(1, "service_name")}

HealthCheckResponse == {I32(1, "status"), Map(2, "services")}
=============================================================================
