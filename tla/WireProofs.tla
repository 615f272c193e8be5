------------------------------- MODULE WireProofs -------------------------------
(***************************************************************************)
(* What arrives of a message over gRPC, JSON-RPC and REST, and what its    *)
(* caller is told, for every request a client can make and every answer a  *)
(* handler can give: RpcCall with the wires of Wires, which the theorems   *)
(* take as a hypothesis.  Thrift is not among them: its generated code     *)
(* reads and writes structures recursively.                                *)
(*                                                                         *)
(* IInv says that what a call has come to is what its wire makes of what   *)
(* was sent.  From there on the proofs are about conversions: each lemma   *)
(* says what is left of one kind of message after the way to the wire and  *)
(* back, and the next kind, which contains it, cites that lemma.           *)
(***************************************************************************)
EXTENDS RpcCall, Wires, WellFoundedInduction, SequenceTheorems, TLAPS

\* RpcCall over gRPC, JSON-RPC and REST
Wired ==
  /\ Transports \subseteq {"grpc", "jsonrpc", "rest"}
  /\ \A wire, o, input : /\ Refused(wire, o, input) = WireRefuses(wire, o, input)
                         /\ Arrives(wire, o, input) = WireArrives(wire, o, input)
  /\ \A wire, o, d : Told(wire, o, d) = WireTells(wire, o, d)

\* None is no text (the provers do not know that those written out are in STRING), no number, and no
\* record or sequence, which are functions
NoneDiffers ==
  /\ None \notin STRING \cup {"empty", "ints", "doubles", "texts", "object", "dict", "text"}
  /\ None \notin Int
  /\ None # [x \in DOMAIN None |-> None[x]]

\* A record one field of which was set is not None: the conversions begin with the defaults of a class.
LEMMA ChangedIsNotNone ==
  ASSUME NoneDiffers, NEW r, NEW field, NEW value
  PROVE  [r EXCEPT ![field] = value] # None
BY DEF NoneDiffers

\* The stages of a call: what is served is what arrived, what is done is the handler's or the error of
\* a conversion, and the outcome is what the wire tells of it.
IInv ==
  /\ transport \in Transports /\ op \in Operations /\ sent \in Inputs(op)
  /\ stage = "sent" => served = None /\ done = None
  /\ stage = "arrived" => done = None
  /\ (stage = "arrived" \/ served # None) =>
       Refusal = None /\ Arrival.raised = None /\ served = Bound(Arrival.items[1])
  /\ done # None =>
       /\ Refusal = None
       /\ IF Arrival.raised = None
          THEN served = Bound(Arrival.items[1]) /\ done \in HandlerGives(op, served.request)
          ELSE done = Arrival
  /\ (stage = "answered" /\ done # None) => outcome = Told(transport, op, done)

\* IInv holds in every state of every call, whatever the wires.
LEMMA InvariantHolds == Spec => []IInv
<1>1. Init => IInv
  BY DEF Init, IInv
<1>2. IInv /\ [Next]_vars => IInv'
  <2> SUFFICES ASSUME IInv, [Next]_vars PROVE IInv'
    OBVIOUS
  <2> USE DEF IInv, Refusal, Arrival
  <2>1. CASE Refuse
    BY <2>1 DEF Refuse, Bound
  <2>2. CASE Reject
    BY <2>2 DEF Reject, Bound
  <2>3. CASE Arrive
    BY <2>3 DEF Arrive, Bound
  <2>4. CASE Serve
    BY <2>4 DEF Serve, Bound
  <2>5. CASE Answer
    BY <2>5 DEF Answer, Bound
  <2>6. CASE UNCHANGED vars
    BY <2>6 DEF vars, Bound
  <2>. QED BY <2>1, <2>2, <2>3, <2>4, <2>5, <2>6 DEF Next
<1>. QED BY <1>1, <1>2, PTL DEF Spec
-----------------------------------------------------------------------------
(* gRPC: what arrives of a request *)

\* A priority becomes a number of the wire and the same priority again.
LEMMA PriorityReturns ==
  ASSUME NoneDiffers, NEW p \in Priorities
  PROVE  PriorityFromWire(PriorityToWire(p)) = p
BY DEF PriorityFromWire, PriorityToWire, Priorities, Low, Normal, High, Critical, NoneDiffers

\* Of a retry policy a delay and a number of attempts of 0 are lost, and the strategy.
LEMMA RetryReturns ==
  ASSUME NoneDiffers, NEW r \in RetryPolicy, transport = "grpc"
  PROVE  /\ retry_config_to_proto(r) # None
         /\ retry_policy_from_proto(retry_config_to_proto(r)) # None
         /\ SameRetry(r, retry_policy_from_proto(retry_config_to_proto(r)))
<1> DEFINE v == retry_config_to_proto(r)
           b == retry_policy_from_proto(v)
<1>1. v # None
  BY DEF retry_config_to_proto, NoneDiffers
<1>2. /\ b.max_attempts = (IF r.max_attempts = 0 THEN DefaultRetry.max_attempts ELSE r.max_attempts)
      /\ b.initial_delay_ms = (IF r.initial_delay_ms = 0 THEN DefaultRetry.initial_delay_ms ELSE r.initial_delay_ms)
      /\ b.retryable_codes = (IF Given(r.retryable_codes, {}) = {} THEN None ELSE Given(r.retryable_codes, {}))
  BY DEF retry_config_to_proto, retry_policy_from_proto, DefaultRetry
<1>3. SameCodes(r.retryable_codes, b.retryable_codes)
  BY <1>2 DEF Given, SameCodes
<1>4. b # None
  BY ChangedIsNotNone DEF retry_policy_from_proto
<1>. QED BY <1>1, <1>2, <1>3, <1>4 DEF SameRetry, Binary

\* The QoS configuration of a request keeps its priority, timeout, idempotency key and retry policy.
LEMMA QosReturns ==
  ASSUME NoneDiffers, NEW q \in QosConfig, transport = "grpc"
  PROVE  /\ qos_config_to_proto(q) # None
         /\ SameQos(q, qos_config_from_proto(qos_config_to_proto(q)))
<1> DEFINE b == qos_config_from_proto(qos_config_to_proto(q))
<1>1. qos_config_to_proto(q) # None
  BY DEF qos_config_to_proto, NoneDiffers
<1>2. b # None
  <2>1. ASSUME NEW p, NEW t, NEW r, NEW k
        PROVE  [DefaultQos EXCEPT !.priority = p, !.timeout_ms = t, !.retry = r, !.idempotency_key = k] # None
    BY ChangedIsNotNone
  <2>. QED BY <2>1 DEF qos_config_from_proto
<1>3. b.priority = q.priority
  BY PriorityReturns DEF QosConfig, qos_config_from_proto, qos_config_to_proto, DefaultQos
<1>4. b.timeout_ms = q.timeout_ms /\ b.idempotency_key = q.idempotency_key
  BY DEF qos_config_from_proto, qos_config_to_proto, DefaultQos
<1>5. b.retry = Convert(retry_policy_from_proto, Convert(retry_config_to_proto, q.retry))
  BY DEF qos_config_from_proto, qos_config_to_proto, DefaultQos
<1>6. q.retry \in RetryPolicy \/ q.retry = None
  BY DEF QosConfig, Optional
<1>7. (q.retry = None) = (b.retry = None)
  BY <1>5, <1>6, RetryReturns DEF Convert
<1>8. q.retry # None => SameRetry(q.retry, b.retry)
  BY <1>5, <1>6, RetryReturns DEF Convert
<1>. QED BY <1>1, <1>2, <1>3, <1>4, <1>7, <1>8 DEF SameQos

\* A list that may be absent comes back, but for the empty one, which is taken for none.
LEMMA ListReturns ==
  ASSUME NoneDiffers, NEW S, NEW l \in Optional(Seq(S))
  PROVE  SameList(l, IfAny(Given(l, <<>>)))
<1>1. CASE l = None
  BY <1>1 DEF IfAny, Given, SameList
<1>2. CASE l = <<>>
  BY <1>2 DEF IfAny, Given, SameList
<1>3. CASE l \in Seq(S) /\ l # <<>>
  <2>1. l # None
    BY <1>3 DEF NoneDiffers
  <2>2. DOMAIN l # {}
    <3>1. DOMAIN l = 1..Len(l) /\ Len(l) \in Nat /\ Len(l) # 0
      BY <1>3
    <3>. QED BY <3>1
  <2>. QED BY <2>1, <2>2 DEF IfAny, Given, SameList
<1>. QED BY <1>1, <1>2, <1>3 DEF Optional

\* Who calls is kept, but for the scheme basic, which has no number.
LEMMA AuthReturns ==
  ASSUME NoneDiffers, NEW a \in AuthContext, transport = "grpc"
  PROVE  /\ auth_context_to_proto(a) # None
         /\ auth_context_from_proto(auth_context_to_proto(a)) # None
         /\ SameAuth(a, auth_context_from_proto(auth_context_to_proto(a)))
<1> DEFINE v == auth_context_to_proto(a)
           b == auth_context_from_proto(v)
<1>1. v # None /\ b # None
  BY DEF auth_context_to_proto, auth_context_from_proto, AuthContext, NoneDiffers
<1>2. b.principal = a.principal /\ b.credentials = a.credentials
  BY DEF auth_context_to_proto, auth_context_from_proto, AuthContext
<1>3. b.scheme = a.scheme \/ (a.scheme = "basic" /\ b.scheme = "unspecified")
  BY DEF auth_context_to_proto, auth_context_from_proto, AuthContext, AuthSchemes, AuthSchemeToWire,
         AuthSchemeFromWire
<1>4. SameList(a.roles, b.roles)
  <2>1. b.roles = IfAny(Given(a.roles, <<>>))
    BY DEF auth_context_to_proto, auth_context_from_proto, AuthContext
  <2>. QED BY <2>1, ListReturns DEF AuthContext
<1>. QED BY <1>1, <1>2, <1>3, <1>4 DEF SameAuth, Binary

\* The metadata of a request keeps the tenant and who calls.
LEMMA MetadataReturns ==
  ASSUME NoneDiffers, NEW m \in RequestMetadata, transport = "grpc"
  PROVE  LET b == request_metadata_from_proto(request_metadata_to_proto(m))
         IN  /\ request_metadata_to_proto(m) # None /\ b # None
             /\ b.tenant_id = m.tenant_id
             /\ (m.auth = None) = (b.auth = None)
             /\ m.auth # None => SameAuth(m.auth, b.auth)
<1> DEFINE v == request_metadata_to_proto(m)
           b == request_metadata_from_proto(v)
<1>1. v # None /\ b # None
  BY ChangedIsNotNone DEF request_metadata_to_proto, request_metadata_from_proto
<1>2. b.tenant_id = m.tenant_id
  BY DEF request_metadata_to_proto, request_metadata_from_proto, RequestMetadata
<1>3. b.auth = Convert(auth_context_from_proto, Convert(auth_context_to_proto, m.auth))
  BY DEF request_metadata_to_proto, request_metadata_from_proto, RequestMetadata
<1>4. m.auth \in AuthContext \/ m.auth = None
  BY DEF RequestMetadata, Optional
<1>5. (m.auth = None) = (b.auth = None) /\ (m.auth # None => SameAuth(m.auth, b.auth))
  BY <1>3, <1>4, AuthReturns DEF Convert
<1>. QED BY <1>1, <1>2, <1>5

\* what becomes of a request over gRPC
GrpcRequest(r) == request_from_proto(request_to_proto(r))

\* A request keeps its data, QoS configuration, caller and tenant.
LEMMA RequestReturns ==
  ASSUME NoneDiffers, NEW r \in Request, transport = "grpc"
  PROVE  /\ SameData(r.data, GrpcRequest(r).data)
         /\ r.qos # None => SameQos(r.qos, GrpcRequest(r).qos)
         /\ r.metadata # None =>
              LET a == r.metadata
                  b == GrpcRequest(r).metadata
              IN  /\ (a.auth = None) = (b.auth = None)
                  /\ a.auth # None => SameAuth(a.auth, b.auth)
                  /\ a.tenant_id \notin {None, ""} => grpc_tenant(GrpcRequest(r)) = a.tenant_id
<1> DEFINE b == GrpcRequest(r)
<1>1. /\ b.data = Convert(value_from_proto, fill_struct(r.data))
      /\ b.qos = Convert(qos_config_from_proto, Convert(qos_config_to_proto, r.qos))
      /\ b.metadata = Convert(request_metadata_from_proto, Convert(request_metadata_to_proto, r.metadata))
  BY DEF GrpcRequest, request_from_proto, request_to_proto, NewRequest
<1>2. /\ r.data \in {None, "empty", "ints", "texts"}
      /\ r.qos = None \/ r.qos \in QosConfig
      /\ r.metadata = None \/ r.metadata \in RequestMetadata
  BY DEF Request, Optional
<1>3. SameData(r.data, b.data)
  BY <1>1, <1>2 DEF Convert, fill_struct, value_to_proto, value_from_proto, SameData, NoneDiffers
<1>4. r.qos # None => SameQos(r.qos, b.qos)
  BY <1>1, <1>2, QosReturns DEF Convert
<1>5. ASSUME r.metadata # None
      PROVE  /\ b.metadata # None /\ b.metadata.tenant_id = r.metadata.tenant_id
             /\ (r.metadata.auth = None) = (b.metadata.auth = None)
             /\ r.metadata.auth # None => SameAuth(r.metadata.auth, b.metadata.auth)
  BY <1>1, <1>2, <1>5, MetadataReturns DEF Convert
<1>6. ASSUME r.metadata # None, r.metadata.tenant_id \notin {None, ""}
      PROVE  grpc_tenant(b) = r.metadata.tenant_id
  BY <1>5, <1>6 DEF grpc_tenant
<1>. QED BY <1>3, <1>4, <1>5, <1>6

\* What a servicer of GrpcV2Handler calls the request handler with: the client's request or, of a stream,
\* its first request with the data of the others.
LEMMA GrpcMessageArrives ==
  ASSUME NEW o \in MessageOps, NEW x \in Argument(o)
  PROVE  LET call == GrpcArrival(o, x).items[1]
             r == GrpcRequest(IF o \in Collecting THEN x[1] ELSE x)
         IN  /\ call = [request |-> r, stream_items |-> call.stream_items, tenant |-> grpc_tenant(r)]
             /\ o \in Collecting =>
                  call.stream_items = [i \in 1..Len(x) - 1 |-> Given(GrpcRequest(x[i + 1]).data, "empty")]
<1> USE DEF Argument, MessageOps, Unary, Streaming, Collecting, GrpcArrival, GrpcRequest, Done
<1>1. CASE o = "call"
  BY <1>1 DEF Call, grpc_call_arrives
<1>2. CASE o = "call_server_stream"
  BY <1>2 DEF Call, grpc_call_server_stream_arrives
<1>3. ASSUME o \in Collecting
      PROVE  /\ x \in Seq(Request) /\ DOMAIN x = 1..Len(x) /\ Len(x) \in Nat /\ 1 \in DOMAIN x
             /\ Len([i \in DOMAIN x |-> GrpcRequest(x[i])]) = Len(x)
             /\ \A i \in 1..Len(x) - 1 : i + 1 \in DOMAIN x
  <2>1. x \in Seq(Request) /\ x # <<>>
    BY <1>3
  <2>2. DOMAIN x = 1..Len(x) /\ Len(x) \in Nat /\ Len(x) # 0
    BY <2>1
  <2>. QED BY <2>1, <2>2
<1>4. CASE o = "call_client_stream"
  BY <1>3, <1>4 DEF Collected, collect, grpc_call_client_stream_arrives
<1>5. CASE o = "call_bidirectional"
  BY <1>3, <1>5 DEF Collected, collect, grpc_call_bidirectional_arrives
<1>. QED BY <1>1, <1>2, <1>4, <1>5
-----------------------------------------------------------------------------
(* a message that has arrived *)

\* JSON-RPC and REST have no streams of requests, and bring a request as it is; REST binds its tenant.
LEMMA HttpMessageArrives ==
  ASSUME NoneDiffers, Wired, IInv, MessageArrived, transport # "grpc"
  PROVE  /\ op \in {"call", "call_server_stream"}
         /\ served.request = sent
         /\ (transport = "rest" /\ sent.metadata # None /\ sent.metadata.tenant_id \notin {None, ""}) =>
              served.tenant = sent.metadata.tenant_id
<1>1. transport \in {"jsonrpc", "rest"} /\ op \in MessageOps
  BY DEF Wired, IInv, MessageArrived
<1>2. WireRefuses(transport, op, sent) = None /\ served = Bound(WireArrives(transport, op, sent).items[1])
  BY DEF Wired, IInv, MessageArrived, Refusal, Arrival
<1>3. op \notin Collecting
  <2>1. not_supported # None
    BY DEF not_supported, Done, NoneDiffers
  <2>. QED BY <1>1, <1>2, <2>1 DEF WireRefuses, HttpRefuses, Collecting
<1>4. op \in {"call", "call_server_stream"}
  BY <1>1, <1>3 DEF MessageOps, Unary, Streaming, Collecting
<1>5. CASE transport = "jsonrpc"
  <2>1. WireArrives(transport, op, sent) = Call([request |-> sent, tenant |-> None])
    BY <1>4, <1>5 DEF WireArrives, JsonRpcArrival, jsonrpc_call_arrives, jsonrpc_call_server_stream_arrives,
                      jsonrpc_tenant
  <2>. QED BY <1>1, <1>2, <1>4, <1>5, <2>1 DEF Call, Done, Bound
<1>6. CASE transport = "rest"
  <2>1. WireArrives(transport, op, sent) = Call([request |-> sent, tenant |-> rest_tenant(sent)])
    BY <1>4, <1>6 DEF WireArrives, RestArrival, rest_call_arrives, rest_call_server_stream_arrives
  <2>2. served = [request |-> sent, stream_items |-> <<>>, tenant |-> Given(rest_tenant(sent), Fallback)]
    BY <1>1, <1>2, <2>1 DEF Call, Done, Bound
  <2>. QED BY <1>4, <1>6, <2>2 DEF rest_tenant, Given
<1>. QED BY <1>1, <1>4, <1>5, <1>6

\* What the request handler is called with for a message over gRPC, in every state of the call.
LEMMA GrpcMessageServed ==
  ASSUME Wired, IInv, MessageArrived, transport = "grpc"
  PROVE  /\ served.request = GrpcRequest(First(sent))
         /\ served.tenant = Given(grpc_tenant(GrpcRequest(First(sent))), Fallback)
         /\ op \in Collecting =>
              served.stream_items = [i \in 1..Len(sent) - 1 |-> Given(GrpcRequest(sent[i + 1]).data, "empty")]
         /\ First(sent) \in Request
<1> DEFINE call == GrpcArrival(op, sent).items[1]
           r == GrpcRequest(First(sent))
<1>1. served = Bound(call) /\ op \in MessageOps /\ sent \in Argument(op)
  BY RpcAssumption DEF Wired, IInv, MessageArrived, Arrival, WireArrives, Operations
<1>2. /\ call = [request |-> r, stream_items |-> call.stream_items, tenant |-> grpc_tenant(r)]
      /\ op \in Collecting =>
           call.stream_items = [i \in 1..Len(sent) - 1 |-> Given(GrpcRequest(sent[i + 1]).data, "empty")]
  BY <1>1, GrpcMessageArrives DEF First
<1>3. served = [call EXCEPT !.tenant = Given(@, Fallback)]
  BY <1>1 DEF Bound
<1>4. First(sent) \in Request
  <2>1. CASE op \in Collecting
    <3>1. sent \in Seq(Request) /\ sent # <<>>
      BY <1>1, <2>1 DEF Argument, Collecting
    <3>2. 1 \in DOMAIN sent
      BY <3>1
    <3>. QED BY <2>1, <3>1, <3>2 DEF First
  <2>2. CASE op \notin Collecting
    BY <1>1, <2>2 DEF Argument, First, MessageOps, Unary, Streaming, Collecting
  <2>. QED BY <2>1, <2>2
<1> HIDE DEF call, r
<1>5. served.request = r /\ served.tenant = Given(grpc_tenant(r), Fallback) /\ served.stream_items = call.stream_items
  BY <1>2, <1>3
<1>. QED BY <1>2, <1>4, <1>5 DEF r

\* Whatever a client asks of the QoS handler - priority, timeout, idempotency key, retry policy - is what
\* it is told over gRPC, JSON-RPC and REST (ToProto.qos_config, FromProto.qos_config), but for the zeros
\* that gRPC takes for numbers not given.
THEOREM QosArrivesHolds ==
  ASSUME NoneDiffers, Wired
  PROVE  Spec => []QosArrives
<1>1. IInv => QosArrives
  <2> SUFFICES ASSUME IInv, MessageArrived, First(sent).qos # None
               PROVE  SameQos(First(sent).qos, served.request.qos)
    BY DEF QosArrives
  <2>1. CASE transport = "grpc"
    BY <2>1, GrpcMessageServed, RequestReturns
  <2>2. CASE transport # "grpc"
    <3>1. op \notin Collecting /\ served.request = sent
      BY <2>2, HttpMessageArrives DEF Collecting
    <3>. QED BY <3>1 DEF First, SameQos, SameRetry, SameCodes
  <2>. QED BY <2>1, <2>2
<1>. QED BY <1>1, InvariantHolds, PTL

\* Whoever calls over gRPC, JSON-RPC or REST is who the method sees, and over gRPC and REST the method
\* runs as the tenant that the caller named (ToProto.request_metadata, FromProto.request_metadata,
\* DefaultGrpcV2ServerContextBuilder, V2ServerContextBuilder).
THEOREM IdentityArrivesHolds ==
  ASSUME NoneDiffers, Wired
  PROVE  Spec => []IdentityArrives
<1>1. IInv => IdentityArrives
  <2> SUFFICES ASSUME IInv, MessageArrived, First(sent).metadata # None
               PROVE  LET a == First(sent).metadata
                          b == served.request.metadata
                      IN  /\ (a.auth = None) = (b.auth = None)
                          /\ a.auth # None => SameAuth(a.auth, b.auth)
                          /\ (a.tenant_id \notin {None, ""} /\ transport # "jsonrpc") => served.tenant = a.tenant_id
    BY DEF IdentityArrives
  <2>1. CASE transport = "grpc"
    BY <2>1, GrpcMessageServed, RequestReturns DEF Given
  <2>2. CASE transport # "grpc"
    <3>1. op \notin Collecting /\ served.request = sent
      BY <2>2, HttpMessageArrives DEF Collecting
    <3>2. transport \in {"jsonrpc", "rest"}
      BY <2>2 DEF IInv, Wired
    <3>. QED BY <2>2, <3>1, <3>2, HttpMessageArrives DEF First, SameAuth, SameList
  <2>. QED BY <2>1, <2>2
<1>. QED BY <1>1, InvariantHolds, PTL

\* A stream of any number of requests reaches the method complete and in its order
\* (RequestHandler._collect_stream_request); over JSON-RPC and REST there is none to lose.
THEOREM StreamArrivesHolds ==
  ASSUME NoneDiffers, Wired
  PROVE  Spec => []StreamArrives
<1>1. IInv => StreamArrives
  <2> SUFFICES ASSUME IInv, MessageArrived, op \in Collecting
               PROVE  /\ Len(served.stream_items) = Len(sent) - 1
                      /\ SameData(sent[1].data, served.request.data)
                      /\ \A i \in DOMAIN served.stream_items :
                           SameData(sent[i + 1].data, served.stream_items[i])
    BY DEF StreamArrives
  <2>1. transport = "grpc"
    BY HttpMessageArrives DEF Collecting
  <2>2. sent \in Seq(Request) /\ sent # <<>>
    BY RpcAssumption DEF IInv, Argument, Collecting
  <2>3. DOMAIN sent = 1..Len(sent) /\ Len(sent) \in Nat /\ Len(sent) # 0
    BY <2>2
  <2>4. served.stream_items = [i \in 1..Len(sent) - 1 |-> Given(GrpcRequest(sent[i + 1]).data, "empty")]
    BY <2>1, GrpcMessageServed
  <2>5. Len(served.stream_items) = Len(sent) - 1
    BY <2>3, <2>4
  <2>6. SameData(sent[1].data, served.request.data)
    BY <2>1, GrpcMessageServed, RequestReturns DEF First
  <2>7. ASSUME NEW i \in 1..Len(sent) - 1
        PROVE  SameData(sent[i + 1].data, served.stream_items[i])
    <3>1. i + 1 \in DOMAIN sent
      BY <2>3
    <3>2. sent[i + 1] \in Request
      BY <2>2, <3>1
    <3>3. SameData(sent[i + 1].data, GrpcRequest(sent[i + 1]).data)
      BY <2>1, <3>2, RequestReturns
    <3>4. served.stream_items[i] = Given(GrpcRequest(sent[i + 1]).data, "empty")
      BY <2>4
    <3>5. ASSUME NEW a, NEW b, SameData(a, b) PROVE SameData(a, Given(b, "empty"))
      <4>1. CASE b = None
        <5>1. a \in {None, "empty"}
          <6>1. <<a, b>> # <<"ints", "doubles">>
            BY <4>1 DEF NoneDiffers
          <6>. QED BY <3>5, <4>1, <6>1 DEF SameData
        <5>. QED BY <4>1, <5>1 DEF SameData, Given
      <4>2. CASE b # None
        BY <3>5, <4>2 DEF Given
      <4>. QED BY <4>1, <4>2
    <3>. QED BY <3>3, <3>4, <3>5
  <2>. QED BY <2>4, <2>5, <2>6, <2>7
<1>. QED BY <1>1, InvariantHolds, PTL
-----------------------------------------------------------------------------
(* the items of an answer *)

\* Up to the first element of S, if there is one: the choice where an answer is cut off is of a number.
LEMMA PrefixExists ==
  ASSUME NEW n \in Nat, NEW S
  PROVE  \E k \in 0..n : (\A i \in 1..k : i \notin S) /\ (k < n => k + 1 \in S)
<1> DEFINE T == S \cap (1..n)
<1>1. CASE T = {}
  BY <1>1
<1>2. CASE T # {}
  <2>1. OpToRel(<, Nat) = {pair \in Nat \X Nat : pair[1] < pair[2]}
    BY DEF OpToRel
  <2>2. T \subseteq Nat
    OBVIOUS
  <2>3. PICK j \in T : \A l \in T : ~(<<l, j>> \in OpToRel(<, Nat))
    BY <1>2, <2>2, WFMin, NatLessThanWellFounded
  <2>4. j \in 1..n /\ j \in S
    OBVIOUS
  <2>5. ASSUME NEW i \in 1..j - 1 PROVE i \notin S
    <3>1. i \in 1..n /\ i < j
      BY <2>4
    <3>2. i \in Nat /\ j \in Nat
      BY <3>1, <2>4
    <3>. QED BY <2>1, <2>3, <3>1, <3>2
  <2>6. WITNESS j - 1 \in 0..n
  <2>. QED BY <2>4, <2>5
<1>. QED BY <1>1, <1>2

\* A sequence with an item after it, written out as a function.
LEMMA AppendKnown ==
  ASSUME NEW n \in Nat, NEW f, f = [i \in 1..n |-> f[i]], NEW x
  PROVE  /\ Append(f, x) = [i \in 1..n + 1 |-> IF i <= n THEN f[i] ELSE x]
         /\ f \o <<x>> = Append(f, x)
<1> DEFINE S == {f[i] : i \in 1..n} \cup {x}
<1>1. f \in Seq(S) /\ Len(f) = n /\ x \in S
  OBVIOUS
<1> HIDE DEF S
<1>2. /\ Append(f, x) \in Seq(S) /\ Len(Append(f, x)) = n + 1 /\ Append(f, x)[n + 1] = x
      /\ \A i \in 1..n : Append(f, x)[i] = f[i]
  BY <1>1
<1>3. Append(f, x) = [i \in 1..n + 1 |-> Append(f, x)[i]]
  BY <1>2
<1>4. \A i \in 1..n + 1 : Append(f, x)[i] = IF i <= n THEN f[i] ELSE x
  BY <1>2
<1>5. f \o <<x>> = Append(f, x)
  BY <1>1
<1>. QED BY <1>3, <1>4, <1>5

\* A task's status survives its number on the gRPC wire.
LEMMA StatusReturns ==
  ASSUME NEW s \in {"pending", "running", "succeeded", "failed", "canceled"}
  PROVE  TaskStatusFromWire(TaskStatusToWire(s)) = s
<1>1. PICK n \in 1..7 : TaskStatuses[n] = s
  BY DEF TaskStatuses
<1>2. DOMAIN TaskStatuses = 1..7
  BY DEF TaskStatuses
<1>3. TaskStatusToWire(s) \in DOMAIN TaskStatuses /\ TaskStatuses[TaskStatusToWire(s)] = s
  BY <1>1, <1>2 DEF TaskStatusToWire
<1>. QED BY <1>3 DEF TaskStatusFromWire

\* A task record is the same task after the way to gRPC and back, and after pydantic's JSON.
LEMMA RecordReturns ==
  ASSUME NoneDiffers, NEW r \in Records, transport # "thrift"
  PROVE  /\ SameTask(r, task_record_from_proto(task_record_to_proto(r)))
         /\ SameTask(r, record_payload(r))
<1> DEFINE b == task_record_from_proto(task_record_to_proto(r))
<1>1. /\ r.status \in {"pending", "running", "succeeded", "failed", "canceled"}
      /\ r.priority = Normal /\ r.result \in {None, "ints", "object"}
      /\ r.error \in {None, RpcError(5000)}
      /\ DOMAIN r = {"task_id", "parent_task_id", "status", "priority", "attempt", "max_attempts", "result",
                     "error", "progress", "metadata", "tags"}
  <2>1. CASE r \in {[NewTask EXCEPT !.status = s, !.max_attempts = 1] : s \in {"pending", "running", "canceled"}}
    <3>1. PICK s \in {"pending", "running", "canceled"} : r = [NewTask EXCEPT !.status = s, !.max_attempts = 1]
      BY <2>1
    <3>. QED BY <3>1 DEF NewTask
  <2>2. CASE r \in {[NewTask EXCEPT !.status = "succeeded", !.max_attempts = 1, !.result = v] :
                    v \in {"ints", "object"}}
    <3>1. PICK v \in {"ints", "object"} : r = [NewTask EXCEPT !.status = "succeeded", !.max_attempts = 1, !.result = v]
      BY <2>2
    <3>. QED BY <3>1 DEF NewTask
  <2>3. CASE r = [NewTask EXCEPT !.status = "failed", !.max_attempts = 1, !.error = RpcError(5000)]
    BY <2>3 DEF NewTask
  <2>. QED BY <2>1, <2>2, <2>3 DEF Records
<1>2. b.task_id = r.task_id /\ b.attempt = r.attempt /\ b.max_attempts = r.max_attempts
  BY <1>1 DEF task_record_from_proto, task_record_to_proto
<1>3. b.status = r.status
  <2>1. b.status = TaskStatusFromWire(TaskStatusToWire(r.status))
    BY <1>1 DEF task_record_from_proto, task_record_to_proto
  <2>. QED BY <1>1, <2>1, StatusReturns
<1>4. b.priority = r.priority
  <2>1. b.priority = PriorityFromWire(PriorityToWire(r.priority))
    BY <1>1 DEF task_record_from_proto, task_record_to_proto
  <2>. QED BY <1>1, <2>1, PriorityReturns DEF Priorities, Normal, Low, Critical
<1>5. b.result = (IF r.result = "ints" THEN "doubles" ELSE IF r.result = "object" THEN "text" ELSE None)
  BY <1>1 DEF task_record_from_proto, task_record_to_proto, CanBeValue, value_to_proto, value_from_proto, Convert,
     NoneDiffers
<1>6. b.error = Convert(rpc_error_from_proto, Convert(rpc_error_to_proto, r.error))
  BY <1>1 DEF task_record_from_proto, task_record_to_proto
<1>7. IF r.error = None THEN b.error = None ELSE b.error # None /\ b.error.code = r.error.code
  <2> DEFINE there == rpc_error_to_proto(RpcError(5000))
             back == rpc_error_from_proto(there)
  <2>1. RpcError(5000) # None
    BY DEF RpcError, NoneDiffers
  <2>3. there # None /\ back # None
    <3>1. \A v : rpc_error_from_proto(v) # None /\ rpc_error_to_proto(v) # None
      BY ChangedIsNotNone DEF rpc_error_from_proto, rpc_error_to_proto
    <3>. QED BY <3>1
  <2>2. back.code = RpcError(5000).code
    BY DEF rpc_error_from_proto, rpc_error_to_proto, RpcError
  <2>. QED BY <1>1, <1>6, <2>1, <2>2, <2>3 DEF Convert
<1>8. SameTask(r, b)
  BY <1>1, <1>2, <1>3, <1>4, <1>5, <1>7 DEF SameTask, SameResult
<1>9. SameTask(r, record_payload(r))
  BY <1>1 DEF SameTask, SameResult, record_payload, ThroughJson
<1>. QED BY <1>8, <1>9

\* Before(n, S), where a stream is cut off, is what its name says: nothing before is in S, the next is.
LEMMA BeforeStops ==
  ASSUME NEW n \in Nat, NEW S
  PROVE  /\ Before(n, S) \in 0..n
         /\ \A i \in 1..Before(n, S) : i \notin S
         /\ Before(n, S) < n => Before(n, S) + 1 \in S
<1>1. PICK k \in 0..n : (\A i \in 1..k : i \notin S) /\ (k < n => k + 1 \in S)
  BY PrefixExists
<1>. QED BY <1>1 DEF Before

\* What an answered call rests on: its outcome is what the wire tells of what the handler gave.
LEMMA AnswerGiven ==
  ASSUME Wired, IInv, stage = "answered", done # None
  PROVE  /\ outcome = WireTells(transport, op, done)
         /\ transport \in {"grpc", "jsonrpc", "rest"} /\ op \in Operations
         /\ (Arrival.raised = None \/ done.raised = None) => done \in HandlerGives(op, served.request)
BY DEF Wired, IInv

\* An event of a task returns with its name and the same task.
LEMMA EventReturns ==
  ASSUME NoneDiffers, NEW e \in Events, transport # "thrift"
  PROVE  LET v == task_event_to_proto(e)
             g == [v EXCEPT !.task = task_record_from_proto(@)]
         IN  /\ g.event = e.event /\ SameTask(e.task, g.task)
             /\ event_payload(e).event = e.event /\ SameTask(e.task, event_payload(e).task)
<1>1. PICK r \in Records : e = Event(r)
  BY DEF Events
<1>2. e = [task |-> r, event |-> e.event]
  BY <1>1 DEF Event
<1>. QED BY <1>1, <1>2, RecordReturns DEF task_event_to_proto, event_payload

\* What a subscription gives is a sequence of events.
LEMMA SubscriptionGives ==
  ASSUME NEW s, NEW d \in task_subscribe(s)
  PROVE  /\ DOMAIN d.items = 1..Len(d.items) /\ Len(d.items) \in Nat
         /\ \A i \in DOMAIN d.items : d.items[i] \in Events
         /\ d = Done(d.items, d.raised)
<1>1. \/ \E e \in Events : d = Done(<<e>>, None)
      \/ \E a, b \in Events : d = Done(<<a, b>>, None)
      \/ d = Done(<<>>, PythonError("KeyError"))
  <2>1. Wanted(s) \subseteq Events
    BY DEF Wanted
  <2>. QED BY <2>1 DEF task_subscribe
<1>. QED BY <1>1 DEF Done

\* What a client reads of a JSON-RPC stream: all the results, and the error after them, if there is one.
ReadsAll(m, results, raised, answers) ==
  LET last == Before(Len(answers), {i \in DOMAIN answers : answers[i].kind = "error"})
  IN  /\ last = m
      /\ [i \in 1..last |-> answers[i].value] = [i \in 1..m |-> results[i].value]
      /\ IF raised = None THEN Len(answers) = m
         ELSE Len(answers) = m + 1 /\ answers[m + 1].value = exception_to_rpc_error(raised)

\* A client of a JSON-RPC stream of results, with an error after them if one was raised, reads all of it.
LEMMA StreamRead ==
  ASSUME NEW m \in Nat, NEW results, results = [i \in 1..m |-> results[i]], \A i \in 1..m : results[i].kind = "result",
         NEW raised, NEW answers, answers = IF raised = None THEN results ELSE Append(results, jsonrpc_error(raised))
  PROVE  ReadsAll(m, results, raised, answers)
<1> USE DEF ReadsAll
<1> DEFINE errors == {i \in DOMAIN answers : answers[i].kind = "error"}
           last == Before(Len(answers), errors)
<1>1. CASE raised = None
  <2>1. Len(answers) = m /\ DOMAIN answers = 1..m /\ \A i \in 1..m : answers[i] = results[i]
    BY <1>1
  <2>2. last \in 0..m /\ (last < m => last + 1 \in errors)
    BY <2>1, BeforeStops
  <2> HIDE DEF last
  <2>3. last = m
    BY <2>1, <2>2
  <2>4. [i \in 1..last |-> answers[i].value] = [i \in 1..m |-> results[i].value]
    BY <2>1, <2>3
  <2>. QED BY <1>1, <2>1, <2>3, <2>4 DEF last
<1>2. CASE raised # None
  <2>1. answers = [i \in 1..m + 1 |-> IF i <= m THEN results[i] ELSE jsonrpc_error(raised)]
    BY <1>2, AppendKnown
  <2>2. /\ Len(answers) = m + 1 /\ DOMAIN answers = 1..m + 1
        /\ \A i \in 1..m : answers[i] = results[i]
        /\ answers[m + 1].kind = "error" /\ answers[m + 1].value = exception_to_rpc_error(raised)
    BY <2>1 DEF jsonrpc_error
  <2>3. /\ last \in 0..m + 1 /\ (last < m + 1 => last + 1 \in errors)
        /\ \A i \in 1..last : i \notin errors
    <3>1. last = Before(m + 1, errors)
      BY <2>2
    <3> HIDE DEF errors, last
    <3>2. m + 1 \in Nat
      OBVIOUS
    <3>. QED BY <3>1, <3>2, BeforeStops
  <2> HIDE DEF last
  <2>4. last = m
    <3>1. m + 1 \in errors /\ \A i \in 1..m : i \notin errors
      BY <2>2
    <3>2. \A i \in errors : i = m + 1
      BY <2>2, <3>1
    <3> HIDE DEF errors
    <3>. QED BY <2>3, <3>1, <3>2
  <2>5. [i \in 1..last |-> answers[i].value] = [i \in 1..m |-> results[i].value]
    BY <2>2, <2>4
  <2>. QED BY <1>2, <2>2, <2>4, <2>5 DEF last
<1>. QED BY <1>1, <1>2

\* The events of a task over JSON-RPC: every one, and an exception if there is one.
LEMMA JsonSubscribeTells ==
  ASSUME NoneDiffers, NEW d, NEW m \in Nat, DOMAIN d.items = 1..m
  PROVE  LET told == jsonrpc_task_subscribe(d)
         IN  /\ d.raised = None => told = Done([i \in 1..m |-> event_payload(d.items[i])], None)
             /\ d.raised # None => told.raised # None
<1> DEFINE results == [i \in 1..m |-> jsonrpc_result(event_payload(d.items[i]))]
           answers == JsonRpcSubscribe(d)
           last == Before(Len(answers), {i \in DOMAIN answers : answers[i].kind = "error"})
           items == [i \in 1..last |-> answers[i].value]
           told == jsonrpc_task_subscribe(d)
<1>1. answers = IF d.raised = None THEN results ELSE Append(results, jsonrpc_error(d.raised))
  BY DEF JsonRpcSubscribe, JsonRpcStream
<1>2. told = IF last = Len(answers) THEN Done(items, None)
             ELSE LET end == RaiseError(answers[last + 1].value) IN Done(items \o end.items, end.raised)
  BY DEF jsonrpc_task_subscribe, jsonrpc_stream
<1>3. results = [i \in 1..m |-> results[i]] /\ \A i \in 1..m : results[i].kind = "result"
  BY DEF jsonrpc_result
<1>4. [i \in 1..m |-> results[i].value] = [i \in 1..m |-> event_payload(d.items[i])]
  BY DEF jsonrpc_result
<1> HIDE DEF results, answers, told
<1>5. /\ last = m
      /\ items = [i \in 1..m |-> results[i].value]
      /\ IF d.raised = None THEN Len(answers) = m
         ELSE Len(answers) = m + 1 /\ answers[m + 1].value = exception_to_rpc_error(d.raised)
  <2>1. ReadsAll(m, results, d.raised, answers)
    BY <1>1, <1>3, StreamRead
  <2>. QED BY <2>1 DEF ReadsAll
<1> HIDE DEF last, items
<1>6. \A e : RaiseError(e).raised # None
  BY DEF RaiseError, ClientJSONRPCError, Done, NoneDiffers
<1>7. CASE d.raised = None
  BY <1>2, <1>4, <1>5, <1>7 DEF told
<1>8. CASE d.raised # None
  <2>1. last # Len(answers)
    BY <1>5, <1>8
  <2>2. told.raised = RaiseError(answers[last + 1].value).raised
    BY <1>2, <2>1 DEF Done
  <2>. QED BY <1>6, <1>8, <2>2 DEF told
<1>. QED BY <1>7, <1>8

\* Whoever asks for a task or follows its events over gRPC, JSON-RPC or REST (task_query, task_subscribe)
\* is told its status, attempts, error and result as they are.
THEOREM RecordToldHolds ==
  ASSUME NoneDiffers, Wired
  PROVE  Spec => []RecordTold
<1>1. IInv => RecordTold
  <2> SUFFICES ASSUME IInv, stage = "answered", done # None, ~Failing PROVE
        /\ op = "task_query" => SameTask(done.items[1], outcome.items[1])
        /\ op = "task_subscribe" =>
             /\ Len(outcome.items) = Len(done.items)
             /\ \A i \in DOMAIN done.items : /\ outcome.items[i].event = done.items[i].event
                                             /\ SameTask(done.items[i].task, outcome.items[i].task)
    BY DEF RecordTold
  <2>1. done.raised = None
    BY DEF Failing
  <2>2. /\ outcome = WireTells(transport, op, done)
        /\ transport \in {"grpc", "jsonrpc", "rest"}
        /\ done \in HandlerGives(op, served.request)
    BY <2>1, AnswerGiven
  <2>3. ASSUME op = "task_query" PROVE SameTask(done.items[1], outcome.items[1])
    <3>1. done \in task_query(served.request)
      BY <2>2, <2>3 DEF HandlerGives, Unary, Streaming
    <3>2. PICK r \in Records : done = Done(<<r>>, None)
      <4>1. done \notin {Done(<<>>, NoSuchTask)}
        BY <2>1 DEF Done, NoSuchTask, RpcExceptionOf, NoneDiffers
      <4>. QED BY <3>1, <4>1 DEF task_query
    <3>3. SameTask(r, task_record_from_proto(task_record_to_proto(r))) /\ SameTask(r, record_payload(r))
      BY <2>2, RecordReturns
    <3>4. done.items[1] = r /\ done.items = <<r>>
      BY <3>2 DEF Done
    <3>5. outcome.items[1] \in {task_record_from_proto(task_record_to_proto(r)), record_payload(r)}
      <4>1. CASE transport = "grpc"
        BY <2>1, <2>2, <2>3, <3>4, <4>1 DEF WireTells, GrpcAnswer, grpc_task_query, Each, GrpcQuery, Done
      <4>2. CASE transport = "jsonrpc"
        BY <2>1, <2>2, <2>3, <3>4, <4>2 DEF WireTells, JsonRpcAnswer, jsonrpc_task_query, jsonrpc_unary_or_raise,
             JsonRpcQuery, JsonRpcUnary, jsonrpc_result, Done
      <4>3. CASE transport = "rest"
        BY <2>1, <2>2, <2>3, <3>4, <4>3 DEF WireTells, RestAnswer, rest_task_query, send_request, RestQuery,
             RestTaskUnary, Done
      <4>. QED BY <2>2, <4>1, <4>2, <4>3
    <3>. QED BY <3>3, <3>4, <3>5
  <2>4. ASSUME op = "task_subscribe"
        PROVE  /\ Len(outcome.items) = Len(done.items)
               /\ \A i \in DOMAIN done.items : /\ outcome.items[i].event = done.items[i].event
                                               /\ SameTask(done.items[i].task, outcome.items[i].task)
    <3>1. done \in task_subscribe(served.request)
      BY <2>2, <2>4 DEF HandlerGives, Unary, Streaming
    <3>2. /\ DOMAIN done.items = 1..Len(done.items) /\ Len(done.items) \in Nat
          /\ \A i \in DOMAIN done.items : done.items[i] \in Events
      BY <3>1, SubscriptionGives
    <3>3. CASE transport = "grpc"
      <4> DEFINE back(e) == [task_event_to_proto(e) EXCEPT !.task = task_record_from_proto(@)]
      <4>1. outcome.items = [i \in DOMAIN done.items |-> back(done.items[i])]
        BY <2>2, <2>4, <3>3 DEF WireTells, GrpcAnswer, grpc_task_subscribe, Each, GrpcSubscribe, Done
      <4>2. \A i \in DOMAIN done.items : /\ back(done.items[i]).event = done.items[i].event
                                         /\ SameTask(done.items[i].task, back(done.items[i]).task)
        BY <3>2, <3>3, EventReturns
      <4> HIDE DEF back
      <4>. QED BY <3>2, <4>1, <4>2
    <3>4. CASE transport # "grpc"
      <4>3. outcome.items = [i \in DOMAIN done.items |-> event_payload(done.items[i])]
        <5>1. CASE transport = "jsonrpc"
          <6>1. outcome = jsonrpc_task_subscribe(done)
            BY <2>2, <2>4, <5>1 DEF WireTells, JsonRpcAnswer
          <6>2. outcome = Done([i \in 1..Len(done.items) |-> event_payload(done.items[i])], None)
            BY <2>1, <3>2, <6>1, JsonSubscribeTells
          <6>. QED BY <3>2, <6>2 DEF Done
        <5>2. CASE transport = "rest"
          BY <2>1, <2>2, <2>4, <5>2 DEF WireTells, RestAnswer, rest_task_subscribe, events_of, RestSubscribe, ItemsOf,
               Done
        <5>. QED BY <2>2, <3>4, <5>1, <5>2
      <4>4. \A i \in DOMAIN done.items : /\ event_payload(done.items[i]).event = done.items[i].event
                                         /\ SameTask(done.items[i].task, event_payload(done.items[i]).task)
        BY <2>2, <3>2, EventReturns
      <4>. QED BY <3>2, <4>3, <4>4
    <3>. QED BY <3>3, <3>4
  <2>. QED BY <2>3, <2>4
<1>. QED BY <1>1, InvariantHolds, PTL
-----------------------------------------------------------------------------
(* the answers of messages *)

\* the responses a message is answered with
MessageItems ==
  {Success("1", v) : v \in Results} \cup {Failed("1", RpcError(code)) : code \in Int}

\* a finite sequence of responses, and perhaps the exception of a method
IsMessageAnswer(d) ==
  /\ DOMAIN d.items = 1..Len(d.items) /\ Len(d.items) \in Nat
  /\ \A i \in 1..Len(d.items) : d.items[i] \in MessageItems
  /\ d.raised \in {None, Broken}

\* Unary methods give one item or an exception, the others any number of items and perhaps an exception.
LEMMA MessageGives ==
  ASSUME NEW o \in MessageOps, NEW x, NEW d \in HandlerGives(o, x)
  PROVE  /\ IsMessageAnswer(d)
         /\ o \in Unary => \/ d.raised = None /\ Len(d.items) = 1
                           \/ d.raised = Broken /\ Len(d.items) = 0
<1>1. Refusals \subseteq {Done(<<y>>, None) : y \in MessageItems}
  <2>1. \A code \in {3011, 5020} : Failed("1", RpcError(code)) \in MessageItems
    BY DEF MessageItems
  <2>. QED BY <2>1 DEF Refusals
<1>2. ASSUME NEW y \in MessageItems, d = Done(<<y>>, None)
      PROVE  IsMessageAnswer(d) /\ d.raised = None /\ Len(d.items) = 1
  BY <1>2 DEF IsMessageAnswer, Done
<1>3. CASE o \in Unary
  <2>1. d \in on_message
    BY <1>3 DEF HandlerGives, Unary, Streaming
  <2>2. CASE \E y \in MessageItems : d = Done(<<y>>, None)
    BY <1>2, <2>2
  <2>3. CASE d = Done(<<>>, Broken)
    BY <2>3 DEF IsMessageAnswer, Done
  <2>4. \A v \in Results : Success("1", v) \in MessageItems
    BY DEF MessageItems
  <2>. QED BY <1>1, <2>1, <2>2, <2>3, <2>4 DEF on_message
<1>4. CASE o \notin Unary
  <2>1. d \in on_stream_message
    BY <1>4 DEF HandlerGives, MessageOps, Unary, Streaming
  <2>2. CASE d \in Refusals
    BY <1>1, <1>2, <1>4, <2>2
  <2>3. StreamItems \subseteq MessageItems
    BY RpcAssumption DEF StreamItems, MessageItems, Results
  <2>4. CASE d \notin Refusals
    <3>1. PICK items \in UNION {[1..n -> StreamItems] : n \in 0..MaxItems}, e \in {None, Broken} : d = Done(items, e)
      BY <2>1, <2>4 DEF on_stream_message
    <3>2. PICK n \in 0..MaxItems : items \in [1..n -> StreamItems]
      BY <3>1
    <3>3. n \in Nat /\ Len(items) = n
      BY <3>2, RpcAssumption
    <3>. QED BY <1>4, <2>3, <3>1, <3>2, <3>3 DEF IsMessageAnswer, Done
  <2>. QED BY <2>2, <2>4
<1>. QED BY <1>3, <1>4

\* What a client makes of an item that the gRPC server sends.
FromGrpc(x) == response_from_proto(response_or_error("1", x))

\* An error response keeps its code on the way to gRPC and back.
LEMMA ErrorReturns ==
  ASSUME NoneDiffers, NEW code \in Int, NEW id
  PROVE  LET b == response_from_proto(response_to_proto(Failed(id, RpcError(code))))
         IN  ~IsSuccess(b) /\ b.error # None /\ b.error.code = code
<1> DEFINE x == Failed(id, RpcError(code))
           there == [RpcError(code) EXCEPT !.details = <<>>]
           v == response_to_proto(x)
           b == response_from_proto(v)
<1>1. RpcError(code) # None /\ x.error = RpcError(code) /\ x.status = "error"
  BY DEF RpcError, Failed, NoneDiffers
<1>2. there.code = code /\ rpc_error_from_proto(there).code = code /\ rpc_error_from_proto(there) # None
  <2>1. there.code = code /\ rpc_error_from_proto(there).code = code
    BY DEF RpcError, rpc_error_from_proto
  <2>2. \A e : rpc_error_from_proto(e) # None
    BY ChangedIsNotNone DEF rpc_error_from_proto
  <2>. QED BY <2>1, <2>2
<1>3. v.payload = [kind |-> "error", value |-> there] /\ v.payload # None
  BY <1>1 DEF response_to_proto, IsSuccess, NoneDiffers
<1>4. b.error = rpc_error_from_proto(there)
  BY <1>3 DEF response_from_proto
<1>. QED BY <1>2, <1>4 DEF IsSuccess

\* A response, over gRPC and over pydantic's JSON, tells the caller what the method gave.
LEMMA ItemReturns ==
  ASSUME NoneDiffers, NEW x \in MessageItems
  PROVE  /\ transport = "grpc" => Tells(FromGrpc(x), x)
         /\ transport \in {"jsonrpc", "rest"} => Tells(response_payload(x), x)
<1>1. CASE x \in {Success("1", v) : v \in Results}
  <2>1. PICK v \in Results : x = Success("1", v)
    BY <1>1
  <2>2. IsSuccess(x) /\ x.result = v /\ x.status = "success"
    BY <2>1 DEF Success, IsSuccess
  <2>3. v \in {None, "ints", "texts", "object"}
    BY DEF Results
  <2>4. CASE transport = "grpc" /\ v = "object"
    <3>1. FromGrpc(x) = response_from_proto(response_to_proto(Failed("1", RpcError(5000))))
      BY <2>2, <2>4 DEF FromGrpc, response_or_error, CanBeValue, exception_to_rpc_error, map_exception_to_error_code,
         PythonError, InvalidParams, InternalErrorCode
    <3>2. Lost(x)
      BY <2>2, <2>4 DEF Lost
    <3>3. ~IsSuccess(FromGrpc(x)) /\ FromGrpc(x).error.code = 5000
      BY <3>1, ErrorReturns
    <3>. QED BY <2>2, <2>4, <3>2, <3>3 DEF Tells, InternalErrorCode
  <2>5. CASE transport = "grpc" /\ v # "object"
    <3>1. FromGrpc(x) = response_from_proto(response_to_proto(x))
      BY <2>2, <2>3, <2>5 DEF FromGrpc, response_or_error, CanBeValue
    <3>2. /\ response_to_proto(x).payload = [kind |-> "result", value |-> value_to_proto(v)]
          /\ response_to_proto(x).status = 1
      BY <2>2 DEF response_to_proto, ResponseStatusToWire
    <3>3. /\ FromGrpc(x).status = "success" /\ FromGrpc(x).error = None
          /\ FromGrpc(x).result = value_to_proto(v)
      <4> HIDE DEF value_to_proto
      <4>1. [kind |-> "result", value |-> value_to_proto(v)] # None
        BY DEF NoneDiffers
      <4>. QED BY <3>1, <3>2, <4>1 DEF response_from_proto, ResponseStatusFromWire, ResponseStatuses, value_from_proto
    <3>4. SameResult(v, value_to_proto(v))
      BY DEF SameResult, value_to_proto
    <3>. QED BY <2>2, <2>5, <3>3, <3>4 DEF Tells, Lost, IsSuccess
  <2>6. CASE transport \in {"jsonrpc", "rest"}
    BY <2>1, <2>2, <2>3, <2>6 DEF response_payload, ThroughJson, Success, Tells, Lost, SameResult, IsSuccess
  <2>. QED BY <2>4, <2>5, <2>6
<1>2. CASE x \in {Failed("1", RpcError(code)) : code \in Int}
  <2>1. PICK code \in Int : x = Failed("1", RpcError(code))
    BY <1>2
  <2>2. ~IsSuccess(x) /\ x.error.code = code /\ x.error # None
    BY <2>1 DEF Failed, IsSuccess, RpcError, NoneDiffers
  <2>3. FromGrpc(x) = response_from_proto(response_to_proto(x))
    BY <2>2 DEF FromGrpc, response_or_error
  <2>4. Tells(FromGrpc(x), x)
    BY <2>1, <2>2, <2>3, ErrorReturns DEF Tells
  <2>5. Tells(response_payload(x), x)
    <3>1. response_payload(x).error = x.error /\ response_payload(x).status = x.status
      BY <2>1 DEF response_payload, Failed
    <3>. QED BY <2>2, <3>1 DEF Tells, IsSuccess
  <2>. QED BY <2>4, <2>5
<1>. QED BY <1>1, <1>2 DEF MessageItems

\* a result a gRPC stream breaks off at: it cannot become a protobuf Value
Unsendable(x) == IsSuccess(x) /\ ~CanBeValue(x.result)

\* A stream over gRPC is the method's, item by item, up to the first that cannot be sent; if there is
\* none, an exception becomes the item after the last.
LEMMA GrpcStreamTells ==
  ASSUME NEW d, IsMessageAnswer(d)
  PROVE  LET told == grpc_call_server_stream("1", d)
             n == Len(told.items)
             m == Len(d.items)
         IN  /\ told.raised = None /\ n \in Nat /\ DOMAIN told.items = 1..n
             /\ \A i \in 1..n : i <= m => told.items[i] = FromGrpc(d.items[i])
             /\ n > m => /\ n = m + 1 /\ d.raised # None
                         /\ told.items[n] = response_from_proto(error_response("1", d.raised))
             /\ n = m => d.raised = None \/ (n > 0 /\ Unsendable(d.items[n]))
             /\ n < m => n > 0 /\ Unsendable(d.items[n])
<1> DEFINE m == Len(d.items)
           bad == {i \in DOMAIN d.items : IsSuccess(d.items[i]) /\ ~CanBeValue(d.items[i].result)}
           last == Before(m, bad)
           results == [i \in 1..last |-> response_to_proto(d.items[i])]
           answers == GrpcCallServerStream("1", d).items
           told == grpc_call_server_stream("1", d)
<1>1. m \in Nat /\ DOMAIN d.items = 1..m
  BY DEF IsMessageAnswer
<1>2. /\ last \in 0..m
      /\ last < m => last + 1 \in bad
      /\ \A i \in 1..last : i \notin bad
  BY <1>1, BeforeStops
<1>3. answers = CASE last < m -> Append(results, response_or_error("1", d.items[last + 1]))
                  [] last = m /\ d.raised # None -> Append(results, error_response("1", d.raised))
                  [] OTHER -> results
  BY DEF GrpcCallServerStream, Done
<1>4. told.items = [i \in DOMAIN answers |-> response_from_proto(answers[i])] /\ told.raised = None
  BY DEF grpc_call_server_stream, Each, Done, GrpcCallServerStream
<1> HIDE DEF m, answers, told, last
<1>5. ASSUME NEW i \in 1..last PROVE response_to_proto(d.items[i]) = response_or_error("1", d.items[i])
  <2>1. i \in DOMAIN d.items /\ i \notin bad
    BY <1>1, <1>2
  <2>. QED BY <2>1 DEF response_or_error
<1> HIDE DEF bad
<1>6. ASSUME NEW x
      PROVE  Append(results, x) = [i \in 1..last + 1 |-> IF i <= last THEN results[i] ELSE x]
  <2>1. results = [i \in 1..last |-> results[i]] /\ last \in Nat
    BY <1>1, <1>2
  <2> HIDE DEF results
  <2>. QED BY <2>1, AppendKnown
<1>7. CASE last < m
  <2>1. answers = [i \in 1..last + 1 |-> response_or_error("1", d.items[i])]
    BY <1>1, <1>2, <1>3, <1>5, <1>6, <1>7
  <2>2. /\ Len(told.items) = last + 1 /\ DOMAIN told.items = 1..last + 1
        /\ \A i \in 1..last + 1 : told.items[i] = FromGrpc(d.items[i])
    BY <1>1, <1>2, <1>4, <2>1 DEF FromGrpc
  <2>3. Unsendable(d.items[last + 1])
    BY <1>2, <1>7 DEF Unsendable, bad
  <2>4. last + 1 \in Nat /\ last + 1 > 0 /\ ~(last + 1 > m) /\ (last + 1 = m \/ last + 1 < m)
    BY <1>1, <1>2, <1>7
  <2>. QED BY <1>4, <2>2, <2>3, <2>4 DEF m, told
<1>8. CASE last = m /\ d.raised # None
  <2>1. answers = [i \in 1..m + 1 |-> IF i <= m THEN results[i] ELSE error_response("1", d.raised)]
    BY <1>1, <1>3, <1>6, <1>8
  <2>2. /\ Len(told.items) = m + 1 /\ DOMAIN told.items = 1..m + 1
        /\ \A i \in 1..m : told.items[i] = FromGrpc(d.items[i])
        /\ told.items[m + 1] = response_from_proto(error_response("1", d.raised))
    BY <1>1, <1>4, <1>5, <1>8, <2>1 DEF FromGrpc
  <2>3. m + 1 \in Nat /\ m + 1 > m /\ m + 1 # m
    BY <1>1
  <2>. QED BY <1>4, <1>8, <2>2, <2>3 DEF m, told
<1>9. CASE last = m /\ d.raised = None
  <2>1. answers = [i \in 1..m |-> response_or_error("1", d.items[i])]
    BY <1>1, <1>3, <1>5, <1>9
  <2>2. /\ Len(told.items) = m /\ DOMAIN told.items = 1..m
        /\ \A i \in 1..m : told.items[i] = FromGrpc(d.items[i])
    BY <1>1, <1>4, <2>1 DEF FromGrpc
  <2>. QED BY <1>1, <1>4, <1>9, <2>2 DEF m, told
<1>. QED BY <1>1, <1>2, <1>7, <1>8, <1>9

\* JSON-RPC tells every item, then the exception.
LEMMA JsonStreamTells ==
  ASSUME NoneDiffers, NEW d, IsMessageAnswer(d)
  PROVE  LET told == jsonrpc_call_server_stream(d)
             m == Len(d.items)
             n == IF d.raised = None THEN m ELSE m + 1
         IN  /\ told.raised = None /\ Len(told.items) = n /\ DOMAIN told.items = 1..n
             /\ \A i \in 1..m : told.items[i] = response_payload(d.items[i])
             /\ d.raised # None => told.items[n] = Failed("envelope", exception_to_rpc_error(d.raised))
<1> DEFINE m == Len(d.items)
           results == [i \in DOMAIN d.items |-> jsonrpc_result(response_payload(d.items[i]))]
           answers == JsonRpcCallServerStream(d)
           last == Before(Len(answers), {i \in DOMAIN answers : answers[i].kind = "error"})
           items == [i \in 1..last |-> answers[i].value]
           told == jsonrpc_call_server_stream(d)
<1>1. m \in Nat /\ DOMAIN d.items = 1..m
  BY DEF IsMessageAnswer
<1>2. answers = IF d.raised = None THEN results ELSE Append(results, jsonrpc_error(d.raised))
  BY DEF JsonRpcCallServerStream, JsonRpcStream
<1>3. told = IF last = Len(answers) THEN Done(items, None)
             ELSE LET end == raise_or_coerce_jsonrpc_error(answers[last + 1].value)
                  IN  Done(items \o end.items, end.raised)
  BY DEF jsonrpc_call_server_stream, jsonrpc_stream
<1>4. \A i \in 1..m : results[i].kind = "result" /\ results[i].value = response_payload(d.items[i])
  BY <1>1 DEF jsonrpc_result
<1>5. results = [i \in 1..m |-> results[i]]
  BY <1>1
<1> HIDE DEF m, results, answers, told
<1>6. /\ last = m
      /\ items = [i \in 1..m |-> results[i].value]
      /\ IF d.raised = None THEN Len(answers) = m
         ELSE Len(answers) = m + 1 /\ answers[m + 1].value = exception_to_rpc_error(d.raised)
  <2>1. ReadsAll(m, results, d.raised, answers)
    BY <1>1, <1>2, <1>4, <1>5, StreamRead
  <2>. QED BY <2>1 DEF ReadsAll
<1> HIDE DEF last, items
<1>7. /\ items = [i \in 1..m |-> items[i]] /\ Len(items) = m /\ DOMAIN items = 1..m
      /\ \A i \in 1..m : items[i] = response_payload(d.items[i])
  BY <1>1, <1>4, <1>6
<1>8. CASE d.raised = None
  <2>1. told = Done(items, None)
    BY <1>3, <1>6, <1>8
  <2>2. told.items = items /\ told.raised = None
    BY <2>1 DEF Done
  <2>. QED BY <1>7, <1>8, <2>2 DEF told, m
<1>9. CASE d.raised # None
  <2> DEFINE error == exception_to_rpc_error(d.raised)
             end == Failed("envelope", error)
  <2>1. d.raised = PythonError("RuntimeError")
    BY <1>9 DEF IsMessageAnswer, Broken
  <2>2. error.code = 5000
    BY <2>1 DEF exception_to_rpc_error, RpcError, map_exception_to_error_code, PythonError, InvalidParams,
                InternalErrorCode
  <2>3. raise_or_coerce_jsonrpc_error(error) = Done(<<end>>, None)
    BY <2>2 DEF raise_or_coerce_jsonrpc_error
  <2>4. last # Len(answers) /\ answers[last + 1].value = error
    BY <1>1, <1>6, <1>9
  <2>5. Done(<<end>>, None).items = <<end>> /\ Done(<<end>>, None).raised = None
    BY DEF Done
  <2> HIDE DEF error, end
  <2>6. told = Done(items \o <<end>>, None)
    BY <1>3, <2>3, <2>4, <2>5
  <2>7. items \o <<end>> = [i \in 1..m + 1 |-> IF i <= m THEN items[i] ELSE end]
    BY <1>1, <1>7, AppendKnown
  <2>8. told.raised = None /\ told.items = [i \in 1..m + 1 |-> IF i <= m THEN items[i] ELSE end]
    BY <2>6, <2>7 DEF Done
  <2>9. /\ Len(told.items) = m + 1 /\ DOMAIN told.items = 1..m + 1
        /\ told.items[m + 1] = end /\ \A i \in 1..m : told.items[i] = items[i]
    BY <1>1, <2>8
  <2>. QED BY <1>7, <1>9, <2>8, <2>9 DEF told, m, end, error
<1>. QED BY <1>8, <1>9

\* A stream over REST is the method's, item by item, up to the first error response, where the client
\* stops reading; if there is none, an exception becomes the item after the last.
LEMMA RestStreamTells ==
  ASSUME NoneDiffers, NEW d, IsMessageAnswer(d)
  PROVE  LET told == rest_call_server_stream("1", d)
             n == Len(told.items)
             m == Len(d.items)
         IN  /\ told.raised = None /\ n \in Nat /\ DOMAIN told.items = 1..n
             /\ \A i \in 1..n : i <= m => told.items[i] = response_payload(d.items[i])
             /\ n > m => /\ n = m + 1 /\ d.raised # None
                         /\ told.items[n] = Failed("1", exception_to_rpc_error(d.raised))
             /\ n = m => d.raised = None \/ (n > 0 /\ ~IsSuccess(d.items[n]))
             /\ n < m => n > 0 /\ ~IsSuccess(d.items[n])
<1> DEFINE m == Len(d.items)
           errors == {i \in DOMAIN d.items : is_error_response(d.items[i])}
           last == Before(m, errors)
           payloads(k) == [i \in 1..k |-> response_payload(d.items[i])]
           told == rest_call_server_stream("1", d)
           error == Failed("1", exception_to_rpc_error(d.raised))
<1>1. m \in Nat /\ DOMAIN d.items = 1..m
  BY DEF IsMessageAnswer
<1>2. /\ last \in 0..m /\ (last < m => last + 1 \in errors)
  BY <1>1, BeforeStops
<1>3. /\ told.items = CASE last < m -> payloads(last + 1)
                         [] last = m /\ d.raised # None -> Append(payloads(last), error)
                         [] OTHER -> payloads(last)
      /\ told.raised = None
  BY DEF rest_call_server_stream, RestCallServerStream, Done
<1>4. \A k \in 0..m : /\ Len(payloads(k)) = k /\ DOMAIN payloads(k) = 1..k
                      /\ \A i \in 1..k : payloads(k)[i] = response_payload(d.items[i])
  BY <1>1
<1>5. Append(payloads(m), error) = [i \in 1..m + 1 |-> IF i <= m THEN payloads(m)[i] ELSE error]
  BY <1>1, AppendKnown
<1>6. last < m => ~IsSuccess(d.items[last + 1])
  BY <1>2 DEF is_error_response, IsSuccess
<1> HIDE DEF m, last, payloads, told
<1>7. CASE last < m
  <2>1. told.items = payloads(last + 1) /\ last + 1 \in 0..m
    BY <1>1, <1>2, <1>3, <1>7
  <2>. QED BY <1>1, <1>2, <1>3, <1>4, <1>6, <1>7, <2>1 DEF m, told
<1>8. CASE last = m /\ d.raised # None
  <2>1. told.items = [i \in 1..m + 1 |-> IF i <= m THEN payloads(m)[i] ELSE error]
    BY <1>1, <1>3, <1>5, <1>8
  <2>2. /\ Len(told.items) = m + 1 /\ DOMAIN told.items = 1..m + 1
        /\ \A i \in 1..m : told.items[i] = response_payload(d.items[i])
        /\ told.items[m + 1] = error
    BY <1>1, <1>4, <2>1
  <2>. QED BY <1>1, <1>3, <1>8, <2>2 DEF m, told
<1>9. CASE last = m /\ d.raised = None
  <2>1. told.items = payloads(m)
    BY <1>1, <1>3, <1>9
  <2>. QED BY <1>1, <1>3, <1>4, <1>9, <2>1 DEF m, told
<1>. QED BY <1>1, <1>2, <1>7, <1>8, <1>9

\* An exception of a method becomes an error response of its code, over gRPC and over JSON.
LEMMA RaisedReturns ==
  ASSUME NoneDiffers, done.raised = Broken, NEW id
  PROVE  /\ done.raised # None /\ map_exception_to_error_code(done.raised) = 5000
         /\ TellsRaised(response_from_proto(error_response(id, done.raised)))
         /\ TellsRaised(Failed(id, exception_to_rpc_error(done.raised)))
<1>1. done.raised # None
  BY DEF Broken, PythonError, NoneDiffers
<1>2. map_exception_to_error_code(done.raised) = 5000
  BY DEF map_exception_to_error_code, Broken, PythonError, InvalidParams, InternalErrorCode
<1>3. exception_to_rpc_error(done.raised) = RpcError(5000)
  BY <1>2 DEF exception_to_rpc_error
<1>4. error_response(id, done.raised) = response_to_proto(Failed(id, RpcError(5000)))
  BY <1>3 DEF error_response
<1>5. TellsRaised(response_from_proto(error_response(id, done.raised)))
  BY <1>2, <1>4, ErrorReturns DEF TellsRaised
<1>6. TellsRaised(Failed(id, RpcError(5000)))
  BY <1>2 DEF TellsRaised, Failed, RpcError, IsSuccess, NoneDiffers
<1>. QED BY <1>1, <1>2, <1>3, <1>5, <1>6

\* What an answered message rests on: the handler's items, of which a unary method gives one or an exception.
LEMMA MessageAnswerGiven ==
  ASSUME NoneDiffers, Wired, IInv, MessageAnswered
  PROVE  /\ outcome = WireTells(transport, op, done)
         /\ transport \in {"grpc", "jsonrpc", "rest"} /\ op \in MessageOps
         /\ transport # "grpc" => op \in {"call", "call_server_stream"}
         /\ IsMessageAnswer(done)
         /\ op \in Unary => \/ done.raised = None /\ Len(done.items) = 1
                            \/ done.raised = Broken /\ Len(done.items) = 0
<1> USE DEF MessageAnswered
<1>1. /\ outcome = WireTells(transport, op, done)
      /\ transport \in {"grpc", "jsonrpc", "rest"} /\ op \in MessageOps
  BY AnswerGiven
<1>2. Arrival = WireArrives(transport, op, sent) /\ WireRefuses(transport, op, sent) = None
  BY DEF Wired, IInv, Arrival, Refusal
<1>3. Arrival.raised = None
  <2> USE DEF MessageOps, Unary, Streaming, WireArrives, Done
  <2>1. CASE transport = "grpc"
    BY <1>1, <1>2, <2>1 DEF GrpcArrival, Call, Collected
  <2>2. CASE transport = "jsonrpc"
    BY <1>1, <1>2, <2>2 DEF JsonRpcArrival, Call, Arrived
  <2>3. CASE transport = "rest"
    BY <1>1, <1>2, <2>3 DEF RestArrival, Call, Arrived
  <2>. QED BY <1>1, <2>1, <2>2, <2>3
<1>4. ASSUME transport # "grpc" PROVE op \in {"call", "call_server_stream"}
  <2>1. not_supported # None
    BY DEF not_supported, Done, NoneDiffers
  <2>. QED BY <1>1, <1>2, <1>4, <2>1 DEF WireRefuses, HttpRefuses, MessageOps, Unary, Streaming
<1>5. done \in HandlerGives(op, served.request)
  BY <1>3, AnswerGiven
<1>. QED BY <1>1, <1>4, <1>5, MessageGives

\* The answer of a unary message, but for an error over REST, which is an HTTP status.
LEMMA UnaryTold ==
  ASSUME NoneDiffers, Wired, IInv, MessageAnswered, op \in Unary, ~(transport = "rest" /\ Failing)
  PROVE  ItemsTold /\ Len(outcome.items) \in Nat /\ DOMAIN outcome.items = 1..Len(outcome.items)
<1> DEFINE x == done.items[1]
<1>1. /\ outcome = WireTells(transport, op, done)
      /\ transport \in {"grpc", "jsonrpc", "rest"}
      /\ transport # "grpc" => op = "call"
      /\ IsMessageAnswer(done)
      /\ \/ done.raised = None /\ Len(done.items) = 1
         \/ done.raised = Broken /\ Len(done.items) = 0
  BY MessageAnswerGiven DEF Unary
<1>2. ASSUME done.raised = None, Len(done.items) = 1
      PROVE  x \in MessageItems
  BY <1>1, <1>2 DEF IsMessageAnswer
<1>3. ASSUME NEW told, outcome = Done(<<told>>, None),
             done.raised = None => Tells(told, x),
             done.raised = Broken => TellsRaised(told)
      PROVE  ItemsTold /\ Len(outcome.items) \in Nat /\ DOMAIN outcome.items = 1..Len(outcome.items)
  <2>1. outcome.raised = None /\ outcome.items = <<told>>
    BY <1>3 DEF Done
  <2>2. Len(outcome.items) = 1 /\ DOMAIN outcome.items = 1..1 /\ outcome.items[1] = told
    BY <2>1
  <2>3. done.raised = Broken => done.raised # None
    BY RaisedReturns
  <2>4. CASE done.raised = None /\ Len(done.items) = 1
    <3>1. Tells(outcome.items[1], done.items[1])
      BY <1>3, <2>2, <2>4
    <3>2. \A i \in 1..1 : i = 1
      OBVIOUS
    <3>. QED BY <2>1, <2>2, <2>4, <3>1, <3>2 DEF ItemsTold
  <2>5. CASE done.raised = Broken /\ Len(done.items) = 0
    BY <1>3, <2>1, <2>2, <2>3, <2>5 DEF ItemsTold
  <2>. QED BY <1>1, <2>4, <2>5
<1>4. CASE transport = "grpc"
  <2>1. outcome = Each(GrpcCall("1", done), response_from_proto)
    BY <1>1, <1>4 DEF WireTells, GrpcAnswer, grpc_call, grpc_call_client_stream, GrpcCallClientStream, Unary
  <2> DEFINE told == response_from_proto(IF done.raised = None THEN response_or_error("1", x)
                                         ELSE error_response("1", done.raised))
  <2>2. outcome = Done(<<told>>, None)
    BY <2>1 DEF Each, GrpcCall, Done
  <2>3. done.raised = None => Tells(told, x)
    BY <1>1, <1>2, <1>4, ItemReturns, RaisedReturns DEF FromGrpc
  <2>4. done.raised = Broken => TellsRaised(told)
    BY RaisedReturns
  <2>. QED BY <1>3, <2>2, <2>3, <2>4
<1>5. CASE transport = "jsonrpc"
  <2> DEFINE error == exception_to_rpc_error(done.raised)
             told == IF done.raised = None THEN response_payload(x) ELSE Failed("envelope", error)
  <2>1. outcome = jsonrpc_call(done)
    BY <1>1, <1>5 DEF WireTells, JsonRpcAnswer
  <2>2. done.raised = Broken => error.code = 5000
    BY RaisedReturns DEF exception_to_rpc_error, RpcError
  <2>3. outcome = Done(<<told>>, None)
    BY <1>1, <2>1, <2>2 DEF jsonrpc_call, JsonRpcCall, JsonRpcUnary, jsonrpc_unary, jsonrpc_error, jsonrpc_result,
       raise_or_coerce_jsonrpc_error
  <2>4. done.raised = None => Tells(told, x)
    BY <1>1, <1>2, <1>5, ItemReturns, RaisedReturns
  <2>5. done.raised = Broken => TellsRaised(told)
    BY RaisedReturns
  <2>. QED BY <1>3, <2>3, <2>4, <2>5
<1>6. CASE transport = "rest"
  <2>1. done.raised = None /\ IsSuccess(x)
    <3>1. ~Failing
      BY <1>6
    <3>2. done.raised = None
      BY <3>1 DEF Failing
    <3>3. 1 \in DOMAIN done.items
      <4>1. Len(done.items) = 1
        BY <1>1, <3>2, RaisedReturns
      <4>. QED BY <1>1, <4>1 DEF IsMessageAnswer
    <3>4. op \in MessageOps
      BY DEF MessageOps
    <3>. QED BY <3>1, <3>2, <3>3, <3>4 DEF Failing
  <2>2. outcome = send_request(http_response(x))
    BY <1>1, <1>6, <2>1 DEF WireTells, RestAnswer, rest_call, RestCall
  <2>3. http_response(x) = [status |-> 200, body |-> response_payload(x)]
    BY <2>1 DEF http_response, IsSuccess
  <2>4. outcome = Done(<<response_payload(x)>>, None)
    BY <2>2, <2>3 DEF send_request
  <2>. QED BY <1>1, <1>2, <1>3, <1>6, <2>1, <2>4, ItemReturns, RaisedReturns
<1>. QED BY <1>1, <1>4, <1>5, <1>6

\* The answer of a streamed message, on each of the wires.
LEMMA StreamTold ==
  ASSUME NoneDiffers, Wired, IInv, MessageAnswered, op \in Streaming
  PROVE  ItemsTold /\ Len(outcome.items) \in Nat /\ DOMAIN outcome.items = 1..Len(outcome.items)
<1> DEFINE n == Len(outcome.items)
           m == Len(done.items)
<1>1. /\ outcome = WireTells(transport, op, done)
      /\ transport \in {"grpc", "jsonrpc", "rest"}
      /\ transport # "grpc" => op = "call_server_stream"
      /\ IsMessageAnswer(done)
  BY MessageAnswerGiven DEF Streaming
<1>2. m \in Nat /\ \A i \in 1..m : done.items[i] \in MessageItems
  BY <1>1 DEF IsMessageAnswer
<1>3. done.raised # None => done.raised = Broken
  BY <1>1 DEF IsMessageAnswer
<1>4. CASE transport = "grpc"
  <2>1. outcome = grpc_call_server_stream("1", done)
    BY <1>1, <1>4 DEF WireTells, GrpcAnswer, grpc_call_server_stream, grpc_call_bidirectional, GrpcCallBidirectional,
       Streaming
  <2>2. \A x \in MessageItems : Tells(FromGrpc(x), x) /\ (Unsendable(x) => Lost(x))
    <3>1. ASSUME NEW x \in MessageItems, Unsendable(x) PROVE Lost(x)
      BY <1>4, <3>1 DEF Unsendable, Lost, CanBeValue, IsSuccess
    <3>. QED BY <1>4, <3>1, ItemReturns
  <2>. QED BY <1>1, <1>2, <1>3, <2>1, <2>2, GrpcStreamTells, RaisedReturns DEF ItemsTold
<1>5. CASE transport = "jsonrpc"
  <2>1. outcome = jsonrpc_call_server_stream(done)
    BY <1>1, <1>5 DEF WireTells, JsonRpcAnswer
  <2>. QED BY <1>1, <1>2, <1>3, <1>5, <2>1, JsonStreamTells, ItemReturns, RaisedReturns DEF ItemsTold
<1>6. CASE transport = "rest"
  <2>1. outcome = rest_call_server_stream("1", done)
    BY <1>1, <1>6 DEF WireTells, RestAnswer
  <2>2. \A x \in MessageItems : /\ Tells(response_payload(x), x)
                                /\ ~IsSuccess(x) => ~IsSuccess(response_payload(x))
    <3>1. ASSUME NEW x \in MessageItems PROVE Tells(response_payload(x), x)
      BY <1>6, ItemReturns
    <3>. QED BY <3>1 DEF Tells
  <2>3. /\ outcome.raised = None /\ n \in Nat /\ DOMAIN outcome.items = 1..n
        /\ \A i \in 1..n : i <= m => outcome.items[i] = response_payload(done.items[i])
        /\ n > m => /\ n = m + 1 /\ done.raised # None
                    /\ outcome.items[n] = Failed("1", exception_to_rpc_error(done.raised))
        /\ n = m => done.raised = None \/ (n > 0 /\ ~IsSuccess(done.items[n]))
        /\ n < m => n > 0 /\ ~IsSuccess(done.items[n])
    BY <1>1, <2>1, RestStreamTells
  <2> HIDE DEF n, m
  <2>4. ASSUME NEW i \in 1..n, i <= m
        PROVE  Tells(outcome.items[i], done.items[i]) /\ (~IsSuccess(done.items[i]) => ~IsSuccess(outcome.items[i]))
    <3>1. i \in 1..m
      BY <1>2, <2>3, <2>4
    <3>2. done.items[i] \in MessageItems /\ outcome.items[i] = response_payload(done.items[i])
      BY <1>2, <2>3, <2>4, <3>1
    <3>3. /\ Tells(response_payload(done.items[i]), done.items[i])
          /\ ~IsSuccess(done.items[i]) => ~IsSuccess(response_payload(done.items[i]))
      BY <2>2, <3>2
    <3>. QED BY <3>2, <3>3
  <2>5. n > m => TellsRaised(outcome.items[n])
    BY <1>3, <2>3, RaisedReturns
  <2>6. (n = m /\ n > 0 /\ ~IsSuccess(done.items[n])) => ~IsSuccess(outcome.items[n])
    BY <1>2, <2>3, <2>4
  <2>. QED BY <1>2, <1>6, <2>3, <2>4, <2>5, <2>6 DEF ItemsTold, n, m
<1>. QED BY <1>1, <1>4, <1>5, <1>6

\* Every error code has an HTTP status that httpx takes for an error.
LEMMA StatusFails ==
  ASSUME NEW code \in Int
  PROVE  error_code_to_http_status(code) \in Int /\ error_code_to_http_status(code) >= 400
BY DEF error_code_to_http_status

\* The error of a call over REST reaches the caller as the HTTP status of its code.
LEMMA RestFailureTold ==
  ASSUME NoneDiffers, Wired, IInv, MessageAnswered, transport = "rest", op = "call", Failing
  PROVE  RestStatusTold
<1> DEFINE x == done.items[1]
<1>1. /\ outcome = rest_call("1", done)
      /\ IsMessageAnswer(done)
      /\ \/ done.raised = None /\ Len(done.items) = 1
         \/ done.raised = Broken /\ Len(done.items) = 0
  BY MessageAnswerGiven DEF Unary, WireTells, RestAnswer
<1>2. ASSUME NEW code \in Int, RestCall("1", done) = http_response(Failed("1", RpcError(code)))
      PROVE  outcome.items = <<>> /\ outcome.raised # None /\ outcome.raised.code = error_code_to_http_status(code)
  <2> DEFINE r == Failed("1", RpcError(code))
  <2>1. r.status = "error" /\ r.error # None /\ r.error.code = code
    BY DEF Failed, RpcError, NoneDiffers
  <2>2. http_response(r).status = error_code_to_http_status(code)
    BY <2>1 DEF http_response
  <2>3. outcome = Done(<<>>, ClientHTTPError(error_code_to_http_status(code)))
    BY <1>1, <1>2, <2>2, StatusFails DEF rest_call, send_request
  <2>. QED BY <2>3 DEF Done, ClientHTTPError, NoneDiffers
<1>3. CASE done.raised = Broken
  <2>1. done.raised # None /\ map_exception_to_error_code(done.raised) = 5000
    BY <1>3, RaisedReturns
  <2>2. RestCall("1", done) = http_response(Failed("1", RpcError(5000)))
    BY <2>1 DEF RestCall, exception_to_rpc_error
  <2>. QED BY <1>2, <2>1, <2>2 DEF RestStatusTold
<1>4. CASE done.raised = None /\ Len(done.items) = 1
  <2>1. DOMAIN done.items = 1..1 /\ x \in MessageItems
    BY <1>1, <1>4 DEF IsMessageAnswer
  <2>2. ~IsSuccess(x)
    BY <1>4, <2>1 DEF Failing
  <2>3. PICK code \in Int : x = Failed("1", RpcError(code))
    BY <2>1, <2>2 DEF MessageItems, Success, IsSuccess
  <2>4. RestCall("1", done) = http_response(Failed("1", RpcError(code)))
    BY <1>4, <2>3 DEF RestCall
  <2>5. x.error.code = code
    BY <2>3 DEF Failed, RpcError
  <2>. QED BY <1>2, <1>4, <2>4, <2>5 DEF RestStatusTold
<1>. QED BY <1>1, <1>3, <1>4

\* The two ways a message is answered, together.
LEMMA MessageTold ==
  ASSUME NoneDiffers, Wired, IInv, MessageAnswered
  PROVE  /\ transport \in {"grpc", "jsonrpc", "rest"}
         /\ IF transport = "rest" /\ op = "call" /\ Failing THEN RestStatusTold
            ELSE ItemsTold /\ Len(outcome.items) \in Nat /\ DOMAIN outcome.items = 1..Len(outcome.items)
<1>1. /\ op \in Unary \cup Streaming /\ transport \in {"grpc", "jsonrpc", "rest"}
      /\ transport = "rest" => op \in {"call", "call_server_stream"}
  BY MessageAnswerGiven DEF MessageOps
<1>2. CASE transport = "rest" /\ op = "call" /\ Failing
  BY <1>1, <1>2, RestFailureTold
<1>3. CASE ~(transport = "rest" /\ op = "call" /\ Failing)
  <2>1. op \in Unary => ~(transport = "rest" /\ Failing)
    BY <1>1, <1>3 DEF Unary
  <2>. QED BY <1>1, <1>3, <2>1, UnaryTold, StreamTold
<1>. QED BY <1>2, <1>3

\* The caller of a method over gRPC, JSON-RPC or REST gets what the method gave, in its order and up to
\* the first thing that could not be sent: results as results, errors with their codes.
THEOREM OutcomeToldHolds ==
  ASSUME NoneDiffers, Wired
  PROVE  Spec => []OutcomeTold
<1>1. IInv => OutcomeTold
  BY MessageTold DEF OutcomeTold
<1>. QED BY <1>1, InvariantHolds, PTL

\* The health of a service over JSON-RPC.
LEMMA JsonWatchTells ==
  ASSUME NEW d, NEW m \in Nat, DOMAIN d.items = 1..m, d.raised = None
  PROVE  jsonrpc_health_watch(d).raised = None
<1> DEFINE results == [i \in 1..m |-> jsonrpc_result(Unchanged(d.items[i]))]
           answers == JsonRpcWatch(d)
           last == Before(Len(answers), {i \in DOMAIN answers : answers[i].kind = "error"})
<1>1. answers = results
  BY DEF JsonRpcWatch, JsonRpcStream
<1>2. results = [i \in 1..m |-> results[i]] /\ \A i \in 1..m : results[i].kind = "result"
  BY DEF jsonrpc_result
<1>3. jsonrpc_health_watch(d).raised =
        IF last = Len(answers) THEN None ELSE RaiseError(answers[last + 1].value).raised
  BY DEF jsonrpc_health_watch, jsonrpc_stream, Done
<1> HIDE DEF results, answers
<1>4. last = m /\ Len(answers) = m
  <2>1. ReadsAll(m, results, None, answers)
    BY <1>1, <1>2, StreamRead
  <2>. QED BY <2>1 DEF ReadsAll
<1>. QED BY <1>3, <1>4

\* What JSON-RPC answers in a stream is the handler's, never a conversion's error: its length is known.
LEMMA JsonEventsGiven ==
  ASSUME NoneDiffers, Wired, IInv, stage = "answered", done # None, transport = "jsonrpc",
         op \in {"task_subscribe", "health_watch"}
  PROVE  \E m \in Nat : DOMAIN done.items = 1..m /\ (op = "health_watch" => done.raised = None)
<1>1. Arrival.raised = None
  BY DEF Wired, IInv, Arrival, WireArrives, JsonRpcArrival, Arrived, Done
<1>2. done \in HandlerGives(op, served.request)
  BY <1>1, AnswerGiven
<1>3. CASE op = "task_subscribe"
  <2>1. done \in task_subscribe(served.request)
    BY <1>2, <1>3 DEF HandlerGives, Unary, Streaming
  <2>. QED BY <1>3, <2>1, SubscriptionGives
<1>4. CASE op = "health_watch"
  <2>1. done \in health_check(served.request)
    BY <1>2, <1>4 DEF HandlerGives, Unary, Streaming
  <2>2. PICK h : done = Done(<<h>>, None)
    BY <2>1 DEF health_check
  <2>3. DOMAIN done.items = 1..1 /\ done.raised = None
    BY <2>2 DEF Done
  <2>. QED BY <2>3
<1>. QED BY <1>3, <1>4

\* A call about tasks or health fails for the caller exactly when it failed for the handler.
LEMMA TaskFailureTold ==
  ASSUME NoneDiffers, Wired, IInv, stage = "answered", done # None, op \in TaskOps \cup HealthOps
  PROVE  outcome.raised # None <=> done.raised # None
<1>1. outcome = WireTells(transport, op, done) /\ transport \in {"grpc", "jsonrpc", "rest"}
  BY AnswerGiven
<1>2. \A e : abort(e) # None /\ PythonError(e) # None /\ ClientHTTPError(e) # None /\ ClientJSONRPCError(e) # None
  BY DEF abort, PythonError, ClientHTTPError, ClientJSONRPCError, NoneDiffers
<1> USE <1>2 DEF TaskOps, HealthOps, WireTells, Done
<1>3. CASE transport = "grpc"
  <2> USE <1>1, <1>3 DEF GrpcAnswer, Each
  <2>1. CASE op = "task_submit"
    BY <2>1 DEF grpc_task_submit, GrpcSubmit
  <2>2. CASE op = "task_query"
    BY <2>2 DEF grpc_task_query, GrpcQuery
  <2>3. CASE op = "task_cancel"
    BY <2>3 DEF grpc_task_cancel, GrpcCancel
  <2>4. CASE op = "task_subscribe"
    BY <2>4 DEF grpc_task_subscribe, GrpcSubscribe
  <2>5. CASE op = "health_check"
    BY <2>5 DEF grpc_health_check, GrpcCheck
  <2>6. CASE op = "health_watch"
    BY <2>6 DEF grpc_health_watch, GrpcWatch
  <2>. QED BY <2>1, <2>2, <2>3, <2>4, <2>5, <2>6
<1>4. CASE transport = "jsonrpc"
  <2> USE <1>1, <1>4 DEF JsonRpcAnswer, jsonrpc_unary_or_raise, JsonRpcUnary, jsonrpc_error, jsonrpc_result, RaiseError
  <2>1. CASE op = "task_submit"
    BY <2>1 DEF jsonrpc_task_submit, JsonRpcSubmit
  <2>2. CASE op = "task_query"
    BY <2>2 DEF jsonrpc_task_query, JsonRpcQuery
  <2>3. CASE op = "task_cancel"
    BY <2>3 DEF jsonrpc_task_cancel, JsonRpcCancel
  <2>4. CASE op = "task_subscribe"
    BY <2>4, JsonEventsGiven, JsonSubscribeTells DEF TaskOps
  <2>5. CASE op = "health_check"
    BY <2>5 DEF jsonrpc_health_check, JsonRpcCheck
  <2>6. CASE op = "health_watch"
    <3>1. PICK m \in Nat : DOMAIN done.items = 1..m /\ done.raised = None
      BY <2>6, JsonEventsGiven
    <3>2. jsonrpc_health_watch(done).raised = None
      BY <3>1, JsonWatchTells
    <3>. QED BY <2>6, <3>1, <3>2
  <2>. QED BY <2>1, <2>2, <2>3, <2>4, <2>5, <2>6
<1>5. CASE transport = "rest"
  <2>1. \A code \in Int : error_code_to_http_status(code) >= 400
    BY StatusFails
  <2> USE <1>1, <1>5 DEF RestAnswer, send_request, RestTaskUnary
  <2>2. \A e : error_code_to_http_status(map_exception_to_error_code(e)) >= 400
    BY DEF error_code_to_http_status
  <2>3. CASE op = "task_submit"
    BY <2>2, <2>3 DEF rest_task_submit, RestSubmit
  <2>4. CASE op = "task_query"
    BY <2>2, <2>4 DEF rest_task_query, RestQuery
  <2>5. CASE op = "task_cancel"
    BY <2>2, <2>5 DEF rest_task_cancel, RestCancel
  <2>6. CASE op = "task_subscribe"
    BY <2>6 DEF rest_task_subscribe, events_of, RestSubscribe, ItemsOf
  <2>7. CASE op = "health_check"
    BY <2>2, <2>7 DEF rest_health_check, RestCheck
  <2>8. CASE op = "health_watch"
    BY <2>8 DEF rest_health_watch, events_of, RestWatch
  <2>. QED BY <2>3, <2>4, <2>5, <2>6, <2>7, <2>8
<1>. QED BY <1>1, <1>3, <1>4, <1>5

\* No caller of any operation over gRPC, JSON-RPC or REST takes a failure for a success, and none a success
\* for a failure, but for the results the gRPC server cannot write.
THEOREM FailureToldHolds ==
  ASSUME NoneDiffers, Wired
  PROVE  Spec => []FailureTold
<1>1. ASSUME IInv, stage = "answered", done # None, op \in TaskOps \cup HealthOps
      PROVE  FailureTold
  <2>1. op \notin MessageOps
    BY <1>1 DEF MessageOps, Unary, Streaming, TaskOps, HealthOps
  <2>. QED BY <1>1, <2>1, TaskFailureTold DEF FailureTold, Failing
<1>2. ASSUME IInv, MessageAnswered
      PROVE  FailureTold
  <2> DEFINE told == outcome.raised # None \/ \E i \in DOMAIN outcome.items : ~IsSuccess(outcome.items[i])
             lost == \E i \in DOMAIN done.items : Lost(done.items[i])
  <2>1. SUFFICES told <=> (Failing \/ lost)
    BY <1>2 DEF FailureTold, MessageAnswered
  <2>2. CASE transport = "rest" /\ op = "call" /\ Failing
    BY <1>2, <2>2, RestFailureTold DEF RestStatusTold
  <2>3. CASE ~(transport = "rest" /\ op = "call" /\ Failing)
    <3> DEFINE n == Len(outcome.items)
               m == Len(done.items)
    <3>1. ItemsTold /\ DOMAIN outcome.items = 1..n /\ n \in Nat
      BY <1>2, <2>3, MessageTold
    <3>2. /\ DOMAIN done.items = 1..m /\ m \in Nat
          /\ \A i \in 1..m : done.items[i] \in MessageItems
      BY <1>2, MessageAnswerGiven DEF IsMessageAnswer
    <3>3. told <=> \E i \in 1..n : ~IsSuccess(outcome.items[i])
      BY <3>1 DEF ItemsTold
    <3>4. Failing <=> done.raised # None \/ \E i \in 1..m : ~IsSuccess(done.items[i])
      BY <1>2, <3>2 DEF Failing, MessageAnswered
    <3>5. ASSUME NEW i \in 1..n, i <= m
          PROVE  ~IsSuccess(outcome.items[i]) <=> (~IsSuccess(done.items[i]) \/ Lost(done.items[i]))
      <4>1. Tells(outcome.items[i], done.items[i])
        BY <3>1, <3>5 DEF ItemsTold
      <4>2. Lost(done.items[i]) => IsSuccess(done.items[i])
        <5>1. i \in 1..m
          BY <3>1, <3>2, <3>5
        <5>. QED BY <3>2, <5>1 DEF Lost, MessageItems, Success, Failed, IsSuccess
      <4>. QED BY <4>1, <4>2 DEF Tells
    <3>6. n > m => n = m + 1 /\ done.raised # None /\ ~IsSuccess(outcome.items[n])
      BY <3>1 DEF ItemsTold, TellsRaised
    <3>7. n = m => \/ done.raised = None
                   \/ n > 0 /\ (~IsSuccess(outcome.items[n]) \/ Lost(done.items[n]))
      BY <3>1 DEF ItemsTold
    <3>8. n < m => n > 0 /\ (~IsSuccess(done.items[n]) \/ Lost(done.items[n]))
      BY <3>1 DEF ItemsTold
    <3>9. n \in Nat /\ m \in Nat /\ DOMAIN done.items = 1..m
      BY <3>1, <3>2
    <3> HIDE DEF n, m
    <3>10. CASE n > m
      <4>1. n \in 1..n /\ Failing
        BY <3>4, <3>6, <3>9, <3>10
      <4>. QED BY <3>3, <3>6, <3>10, <4>1
    <3>11. CASE n = m
      <4>1. told => Failing \/ lost
        BY <3>3, <3>4, <3>5, <3>9, <3>11
      <4>2. lost => told
        BY <3>3, <3>5, <3>9, <3>11
      <4>3. (\E i \in 1..m : ~IsSuccess(done.items[i])) => told
        BY <3>3, <3>5, <3>9, <3>11
      <4>4. done.raised # None => told
        <5>1. done.raised # None => n \in 1..n /\ n <= m /\ (~IsSuccess(outcome.items[n]) \/ Lost(done.items[n]))
          BY <3>7, <3>9, <3>11
        <5>. QED BY <3>3, <3>5, <5>1
      <4>. QED BY <3>4, <4>1, <4>2, <4>3, <4>4
    <3>12. CASE n < m
      <4>1. n \in 1..n /\ n \in 1..m /\ n <= m /\ (~IsSuccess(done.items[n]) \/ Lost(done.items[n]))
        BY <3>8, <3>9, <3>12
      <4>. QED BY <3>3, <3>4, <3>5, <3>9, <4>1
    <3>. QED BY <3>9, <3>10, <3>11, <3>12
  <2>. QED BY <2>2, <2>3
<1>3. IInv => FailureTold
  <2>1. IInv => op \in MessageOps \cup TaskOps \cup HealthOps
    BY DEF IInv, Operations
  <2>. QED BY <1>1, <1>2, <2>1 DEF FailureTold, MessageAnswered
<1>. QED BY <1>3, InvariantHolds, PTL
=================================================================================
