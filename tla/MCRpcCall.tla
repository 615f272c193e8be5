------------------------------- MODULE MCRpcCall -------------------------------
(* RpcCall for TLC: the four wires, and what clients send.                 *)
EXTENDS RpcCall, Wires, ThriftTransport

AnyWireRefuses(wire, o, input) ==
  IF wire = "thrift" THEN ThriftRefuses(o, input) ELSE WireRefuses(wire, o, input)

AnyWireArrives(wire, o, input) ==
  IF wire = "thrift" THEN ThriftArrival(o, input) ELSE WireArrives(wire, o, input)

AnyWireTells(wire, o, d) ==
  IF wire = "thrift" THEN ThriftAnswer(o, d) ELSE WireTells(wire, o, d)
-----------------------------------------------------------------------------
(* what clients send: a plain request with one part filled in *)

Roles == {None, <<>>, <<"reader">>}

Credentials ==
  {[scheme |-> s, credentials |-> c, principal |-> "alice", roles |-> <<"reader">>] :
     s \in AuthSchemes, c \in {None, "secret"}} \cup
  {[scheme |-> "bearer", credentials |-> "secret", principal |-> p, roles |-> r] :
     p \in {None, "alice"}, r \in Roles}

\* a tenant in the headers, under the name that wins over the others and under the usual one
TenantHeaders == {<<>>, [n \in {"tenant_id"} |-> "other"], [n \in {"X-Tenant-ID"} |-> "other"]}

Metadata ==
  {[NoMetadata EXCEPT !.auth = a] : a \in Credentials} \cup
  {[NoMetadata EXCEPT !.tenant_id = t, !.headers = h, !.client_id = "c"] :
     t \in {None, "", "acme"}, h \in {None} \cup TenantHeaders}

RetryPolicies ==
  {[strategy |-> s, max_attempts |-> n, initial_delay_ms |-> d, retryable_codes |-> c] :
     s \in {"exponential", "fixed"}, n \in {0, 1, 3}, d \in {0, 50}, c \in {None, {}, {5002, 5003}}}

QosConfigs ==
  {[DefaultQos EXCEPT !.priority = p, !.timeout_ms = t, !.idempotency_key = k] :
     p \in Priorities, t \in {250, 60000}, k \in {None, "k"}} \cup
  {[DefaultQos EXCEPT !.retry = r] : r \in RetryPolicies}

Traces ==
  {[trace_id |-> "ok", span_id |-> "ok", sampled |-> s, parent_span_id |-> p, baggage |-> b] :
     s \in BOOLEAN, p \in {None, "ok"}, b \in {None, [n \in {"user"} |-> "u"]}}

Requests ==
  {[NewRequest EXCEPT !.data = d] : d \in {None, "empty", "ints", "texts"}} \cup
  {[NewRequest EXCEPT !.metadata = m] : m \in Metadata} \cup
  {[NewRequest EXCEPT !.qos = q] : q \in QosConfigs} \cup
  {[NewRequest EXCEPT !.trace_context = t] : t \in Traces}

\* more than one request of a stream: with data of their own
RequestStreams ==
  {<<r>> : r \in Requests} \cup
  {<<[NewRequest EXCEPT !.data = d], [NewRequest EXCEPT !.data = e], [NewRequest EXCEPT !.data = "texts"]>> :
     d, e \in {None, "texts"}}

ClientInputs(o) ==
  CASE o \in {"call", "call_server_stream"} -> Requests
    [] o \in Collecting -> RequestStreams
    [] o = "task_submit" ->
         [target_method : {"m"}, params : {"empty", "plain", "task"}, priority : Priorities \cup {None}]
    [] o = "task_query" -> [task_id : {"t"}]
    [] o = "task_cancel" -> [task_id : {"t"}, reason : {None, "why"}]
    [] o = "task_subscribe" -> [task_id : {"t"}, events : {None, <<>>, <<"completed">>}]
    [] OTHER -> [service : {None, "svc"}]

SomeDicts == TenantHeaders \cup {[n \in {"user"} |-> "u"]}
=============================================================================
