------------------------------- MODULE Protocol -------------------------------
(***************************************************************************)
(* protocol/v2: the messages all transports carry, the numbers that stand  *)
(* for the members of the enumerations on the gRPC and Thrift wires, and   *)
(* how exceptions become error codes and back.                             *)
(*                                                                         *)
(* A message is a record; an absent optional field is None.  Times, and    *)
(* texts that nothing depends on, are left out, and so is the debug part   *)
(* of an error; "" is kept apart where the code tests whether a text is    *)
(* empty.                                                                  *)
(***************************************************************************)
EXTENDS Integers, Sequences, FiniteSets

CONSTANT None  \* differs from every other value

Optional(S) == S \cup {None}

\* Python's "value or default" for what may be absent
Given(value, default) == IF value = None THEN default ELSE value

\* of n things in a row, how many come before the first whose number is in S
Before(n, S) == CHOOSE k \in 0..n : (\A i \in 1..k : i \notin S) /\ (k < n => k + 1 \in S)
-----------------------------------------------------------------------------
(* qos.py: a Priority is its number *)

Low == 0  Normal == 1  High == 2  Critical == 3

Priorities == Low .. Critical

PriorityToWireRaw(p) == Given(p, 0)  \* mutant of PriorityToWire: no room for UNSPECIFIED

PriorityToWire(p) ==
  CASE p = None -> 0
    [] p # None /\ p <= Low -> 1
    [] p # None /\ p \in {Normal, High} -> p + 1
    [] OTHER -> 4

PriorityFromWire(n) ==
  CASE n = None -> Normal
    [] n # None /\ n \in 1..3 -> n - 1
    [] n # None /\ n >= 4 -> Critical
    [] OTHER -> Normal

\* QosConfig and the retry policy of its constructor's default
DefaultRetry ==
  [strategy |-> "exponential", max_attempts |-> 3, initial_delay_ms |-> 100,
   retryable_codes |-> None]

DefaultQos ==
  [enabled |-> FALSE, priority |-> Normal, timeout_ms |-> 60000, ttl_s |-> 300,
   retry |-> None, idempotency_key |-> None]
-----------------------------------------------------------------------------
(* metadata.py *)

AuthSchemes == {"unspecified", "bearer", "api_key", "mtls", "basic"}

AuthSchemeToWire(s) ==
  CASE s = "bearer" -> 1 [] s = "api_key" -> 2 [] s = "mtls" -> 3 [] OTHER -> 0

AuthSchemeFromWire(n) ==
  CASE n = 1 -> "bearer" [] n = 2 -> "api_key" [] n = 3 -> "mtls" [] OTHER -> "unspecified"

NoMetadata ==
  [client_id |-> None, auth |-> None, tenant_id |-> None, headers |-> None,
   long_task |-> FALSE, long_task_method |-> None, long_task_timeout |-> None]
-----------------------------------------------------------------------------
(* types.py *)

ResponseStatuses == <<"success", "error", "partial">>

ResponseStatusToWire(s) ==
  CASE s = "success" -> 1 [] s = "error" -> 2 [] s = "partial" -> 3 [] OTHER -> 0

ResponseStatusFromWire(n) == IF n \in 1..3 THEN ResponseStatuses[n] ELSE "error"

NewRequest ==
  [id |-> "1", method |-> "m", name |-> None, data |-> None,
   trace_context |-> None, metadata |-> None, qos |-> None, meta |-> None]

Success(id, result) == [id |-> id, status |-> "success", result |-> result, error |-> None]

Failed(id, error) == [id |-> id, status |-> "error", result |-> None, error |-> error]

IsSuccess(r) == r.status = "success" /\ r.error = None

\* what a handler or a client method gives: the items of its answer, then perhaps an exception
Done(items, raised) == [items |-> items, raised |-> raised]
-----------------------------------------------------------------------------
(* server/tasks/types.py and health.py *)

TaskStatuses == <<"pending", "scheduled", "running", "succeeded", "failed", "canceled", "retrying">>

TaskStatusToWire(s) ==
  IF \E n \in DOMAIN TaskStatuses : TaskStatuses[n] = s
  THEN CHOOSE n \in DOMAIN TaskStatuses : TaskStatuses[n] = s
  ELSE 0

TaskStatusFromWireShifted(n) ==  \* mutant of TaskStatusFromWire: counts from 0
  IF n + 1 \in DOMAIN TaskStatuses THEN TaskStatuses[n + 1] ELSE "pending"

TaskStatusFromWire(n) == IF n \in DOMAIN TaskStatuses THEN TaskStatuses[n] ELSE "pending"

NewTask ==
  [task_id |-> "t", parent_task_id |-> None, status |-> "pending", priority |-> Normal,
   attempt |-> 1, max_attempts |-> 3, result |-> None, error |-> None, progress |-> None,
   metadata |-> None, tags |-> None]

HealthStatuses == <<"healthy", "unhealthy", "degraded", "unknown">>

HealthStatusToWire(s) ==
  IF \E n \in 1..3 : HealthStatuses[n] = s THEN CHOOSE n \in 1..3 : HealthStatuses[n] = s ELSE 4

HealthStatusFromWire(n) == IF n \in 1..4 THEN HealthStatuses[n] ELSE "unknown"
-----------------------------------------------------------------------------
(* errors.py and exceptions.py *)

ErrorCodes ==
  1000..1004 \cup 2000..2004 \cup 3000..3002 \cup 3010..3012 \cup 4000..4002 \cup 4010..4011
  \cup {4020} \cup 5000..5003 \cup {5010} \cup 5020..5021 \cup 6000..6002

InternalErrorCode == 5000

\* an exception: the class, and the code if it is an RpcException
RpcExceptionOf(code) == [class |-> "RpcException", code |-> code]
PythonError(class) == [class |-> class, code |-> None]

InvalidParams == {"ValueError", "KeyError", "TypeError", "AttributeError", "IndexError",
                  "AssertionError", "StopIteration", "ValidationError"}

\* TimeoutError and the transports' exceptions are "any other Exception"
map_exception_to_error_code(e) ==
  CASE e.class = "RpcException" -> e.code
    [] e.class \in InvalidParams -> 2001
    [] e.class = "PermissionError" -> 3011
    [] e.class \in {"FileNotFoundError", "LookupError"} -> 4000
    [] e.class = "NotImplementedError" -> 5001
    [] OTHER -> InternalErrorCode

\* a name is kept only as far as it says whether the code is one of the standard ones
ErrorName(code) == IF code \in ErrorCodes THEN "NAMED" ELSE "UNKNOWN"

RpcError(code) == [code |-> code, name |-> ErrorName(code), details |-> None]

exception_to_rpc_error(e) == RpcError(map_exception_to_error_code(e))

error_code_to_http_status(code) ==
  CASE code \in 1000..2999 -> 400
    [] code \in 3000..3002 -> 401
    [] code \in 3010..3012 -> 403
    [] code \in 4000..4002 -> 404
    [] code \in 4010..4011 -> 409
    [] code = 4020 -> 410
    [] code = 5001 -> 501
    [] code \in {5002, 5010} -> 503
    [] code \in {5003, 6001} -> 504
    [] code \in 5020..5021 -> 429
    [] code \in 6000..6999 \ {6001} -> 502
    [] OTHER -> 500

error_code_to_grpc_status(code) ==
  CASE code \in 2000..2999 -> "INVALID_ARGUMENT"
    [] code \in 3000..3002 -> "UNAUTHENTICATED"
    [] code \in 3010..3012 -> "PERMISSION_DENIED"
    [] code \in 4000..4002 \cup {4020} -> "NOT_FOUND"
    [] code \in 4010..4011 -> "ALREADY_EXISTS"
    [] code = 5000 -> "INTERNAL"
    [] code = 5001 -> "UNIMPLEMENTED"
    [] code = 5002 -> "UNAVAILABLE"
    [] code = 5003 -> "DEADLINE_EXCEEDED"
    [] code \in 5020..5021 -> "RESOURCE_EXHAUSTED"
    [] OTHER -> "UNKNOWN"
=============================================================================
