# aduib-rpc in TLA+

A model of aduib-rpc (`src/src/aduib_rpc`, called `A/` below) in two parts. The first is what
depends on the order of events: the circuit breaker, the bulkhead and the rate limiter, the three of
them around one request in the resilience handler, the QoS handler and its idempotency cache, the task
manager and its subscriptions, and the health-aware registry. The second is what depends on
conversions: one call of a client over gRPC, Thrift, JSON-RPC or REST, from the client's method
through messages, servers and request handler and back. Everything here is written from
the source; documentation is used only as the origin of a claim to check, quoted with its
line in `PROJECT.json`.

The components of the first part run on one asyncio event loop.  **A step of a model is what the
code does between two suspensions.** A section under an `asyncio.Lock` that contains no
await never suspends while it holds the lock, so the lock is never contended and the
section is one step. Suspensions are a queue, semaphore or lock that is not available, a
sleep, a timeout and the user's callable; cancellation can strike only there.

## 1. Inventory

| component | state | operations | hard behaviour | what makes it correct |
|---|---|---|---|---|
| Circuit breaker, `A/resilience/circuit_breaker.py` | state, failure and success counts, time of opening, half-open slots taken | `call` (before, success, failure, ignored), `reset` | results of calls that began in another state; calls that are cancelled; half-open limit across periods | counts fit the state; slots are not lost; state changes only on the documented evidence; a healthy service gets trusted again |
| Bulkhead, `A/resilience/bulkhead.py` | queue of placeholders, semaphore, active count | `execute`, `acquire`, `try_acquire`, `release` | two resources taken one after the other, a timeout on the first only, cancellation between them, wake-ups | at most `max_concurrent` run; nothing leaks; every call ends, so no wake-up is lost |
| QoS, `A/server/qos/handler.py`, `A/resilience/retry_policy.py`, `A/resilience/cache.py`, `A/server/interceptors/qos.py` | idempotency cache (LRU, TTL), a lock per key, the attempts of a request | lookup, lock, second lookup, attempt with timeout, retry with delay, remember | requests of one key in flight together; nested handlers (`app.py` installs two); expiry and eviction between attempts | one flight per key; a remembered answer is the answer; fresh answers; every request ends |
| Task manager, `A/server/tasks/task_manager.py` | records, expiry times, subscriber queues | `submit`, `get`, `subscribe`, `unsubscribe`, the runner, garbage collection | eviction and expiry of running tasks; reused ids; events that refer to live records | bounded table; no orphan queues; a task has one life; unfinished tasks are dropped last; subscribers are told the outcome |
| Request handler, `A/server/request_handlers/default_request_handler.py` | the generator of each stream; the request in flight | unary dispatch, long tasks, `task_subscribe`, streams | a stream's loop against the task's runner; a task that dispatches itself | streams end and tell the outcome; a submitted call is executed |
| Health-aware registry, `A/discover/registry/health_aware_registry.py`, `A/client/transports/health_aware.py` | the status and counters of each instance, keyed host:port | check of an instance, the check loop, checks by clients, listing healthy instances | checks of one instance that overlap; results that arrive late; a checker that raises | status follows evidence; no false alarm; an instance that stays down, or up, is listed accordingly |
| Discovery and selection, `A/discover/registry/in_memory.py`, `A/discover/load_balance/load_balance.py`, `A/client/service_resolver.py` | instances by service; the cursor of a balancer | register, unregister, list, select | several instances of one service; stale cursors | the others survive an unregistration; every instance gets a share |
| Resilience handler, `A/server/interceptors/resilience.py` | one breaker, one bulkhead, a limiter per tenant; the permit of each request | rate limit, bulkhead, breaker, call, fallback, release | partial failure between acquire and release; fallback re-executes the method | what is acquired is released once; the breaker sees each result once |
| Rate limiter, `A/resilience/rate_limiter.py` | tokens, window, clock | acquire, wait, update | state that is brought up to date only when a call arrives; waiters with deadlines, configuration changed under them | what is admitted within a second is bounded, after any pause |
| Interceptor chain, `A/server/context.py` | the stack of entered interceptors | enter, leave in reverse order, abort | an interceptor that yields twice or swallows an error | every entered interceptor is left once |
| Configuration, `A/config/provider.py` | the configuration, the file's modification time | load, watch, reload | the file changes between load and `stat` | the last change is seen |
| Messages and conversions, `A/protocol/v2`, `A/utils/thrift_v2_utils.py`, `A/utils/grpc_v2_utils.py` | none | to and from each wire | absent fields and zeros, members and numbers, values a wire cannot carry | what arrives is what was sent, as far as the wire can say it |
| Servers, `A/server/request_handlers/*_handler.py`, `A/thrift_v2`; client transports, `A/client/transports` | the call in progress | ten methods a client may call: four kinds of messages, four of tasks, two of health | errors at every stage: of a conversion, of the method, in the middle of a stream, while the answer is written | the method gets the caller's QoS, identity and stream; the caller is told the outcome; a failure is never taken for success |
| Tenant, version, security, audit and telemetry interceptors, `A/server/interceptors` | the current tenant | bind, negotiate, check, record | an interceptor that yields a second time after an error | a message runs as its tenant; the failure is still told |
| RPC execution, `A/server/rpc_execution` | registered services and functions | registration, invocation | long calls polled by the client | a long call's result is returned once |
| Security tables, telemetry, pools, Rust SDK | none, or single values | I/O | none in time | - |

How they interact. A client's transport writes a request as its wire has it; a server adapter reads it and hands
a message to the interceptor chain; in the
default chain (`A/app.py`) the resilience interceptor (order 5) encloses the QoS interceptors
(two of them, lines 170 and 244), which enclose the request handler. The resilience handler calls the
rate limiter, the bulkhead and the breaker in this order. The request handler runs the method,
or submits a task to the task manager, whose runner calls back into the handler. A client
asks the resolver for an instance, which asks the registry for the healthy ones and a
balancer for one of them; its transport reports back by checking instances.

The list of what is hard to test, each at its line, is `hazards` in `PROJECT.json`.

## 2. Plan

In order of importance, with the abstract specification worth stating for each.

1. `CircuitBreaker` implementing `BreakerPolicy`, with `CircuitBreakerProofs`. *(done)*
2. `TaskManager` with `TaskLifecycle`, what polling may show of a task; `LongTask` for the loop
   through the handler. *(done)*
3. `Bulkhead`. *(done)*
4. `Qos` implementing `Idempotency`, with nested interceptors. *(done)*
5. `Resilience`: one request through limiter, bulkhead, breaker and fallback; composes
   `RateLimiter`, `Bulkhead` and `CircuitBreaker`. *(done for unary requests)*
6. `HealthRegistry`: checks by the loop and by clients, thresholds, fallback listing, with
   `HealthRegistryProofs`. *(done for one service)*
7. `RateLimiter`: the three algorithms, as the first guard of `Resilience`. *(done for `acquire`,
   the one operation the server calls)*
8. `RpcCall` over `Protocol` and a module for each wire: what arrives and what is told. *(done)*
9. `Discovery`: registration, unregistration (in-memory, one call removes every instance of a
   service), the resolver and the balancers over `HealthRegistry`'s listing.
10. `ConfigReloader` (the modification time is read after the file), `InterceptorChain`
    (interceptors that yield twice, in time and not only in what they answer), `LongCall` (a client
    polling a long task).

Theorems: every safety property of the components, that `CircuitBreaker`, `TaskManager` and `Qos` implement
their abstract specifications, that the parts of `Resilience` are those of their own modules, and the
properties of `RpcCall` over gRPC, JSON-RPC and REST *(done, section 6)*. Next: `RpcCall` over Thrift, for
which reading and writing structures has to be written without recursion (structures nest to a fixed
depth), with the lemma that a structure that is written and read again is what it was.

## 3. Modules and code

### CircuitBreaker, BreakerPolicy, CircuitBreakerProofs

`call_state[c]` is the local variable of that name in `call()`: `idle` outside, otherwise the
state `_before_call` saw. An action is one of the sections `_before_call`, `_record_success`,
`_record_failure`, `_record_ignored`; between them other calls run. `opened_at` is kept as the
time passed since, which is all that `_open_timeout_elapsed` asks and keeps the model
finite. A rejected call changes nothing and is a stuttering step. `Cancelled` is a
`CancelledError` out of the callable: it is no `Exception`, so no `_record` method is called.
`probes`, `leaked` and `inherited` are history variables that no guard reads.

`BreakerPolicy` is the state machine that the head of `circuit_breaker.py` documents. Its `began` is the
breaker's `call_state`, so that it also says whose evidence counts: a success or a failure
while half-open is that of a call which began half-open. A call that began while the breaker was closed and
ends in a later half-open period gives none (`AnyFailureReopens` is the mutant in which it does).

### TaskManager, TaskLifecycle, LongTask

One action is one method of `InMemoryTaskManager` or one turn of a stream's loop. A record
keeps its number when its task is dropped from the table, as a Python object does; an event
holds the number and not the status, because the code queues the live record. `Surplus`,
`Dropped` and `Oldest` are the garbage collection of `submit`. Times are abstracted to an
order: records are numbered in order of creation, `completed_at` grows with every task that ends, and
the TTL of a task in `Expiring` may pass at any moment. Callers pass the ids in `Reusable` again after
they were collected. `Loops` says which of the two subscription loops serve streams; `Filters` are the event
names that clients of `task_subscribe` may ask for (`Asked`: the parameters of `task/subscribe` hold none).
`stream[s]` is the generator of a client: waiting in
`q.get()`, suspended at its `yield`, ended, or gone. `LongTask` keeps of the table only that a
runner waits, and shows what the handler dispatches for it.

### Bulkhead

A caller is `putting` (in `wait_for(queue.put)`), `waiting` or `granted` (in
`semaphore.acquire`, before and after its future is set) or `running`. `Woken(n, P)` are the first n of
those in P that wait, in the order of `waiters`. `value` and `waiters`
are those of `asyncio.Semaphore` in Python 3.12, modelled as external code from how the
bulkhead uses them. `max_wait` is positive: with 0, `wait_for` cancels every put before it
starts and the bulkhead refuses all calls. `app.py` passes no bulkhead configuration and
`refresh_from_config` has no caller, so a bulkhead is what a user of the library installs.

### Qos, Idempotency

`Interceptors` handlers are nested, each with its cache and its locks. `Descend` walks a request
inwards until a cache answers, a lock is taken, or the method starts; that is one step, as nothing
on that path suspends. `Fail` walks an error outwards to the innermost handler with an attempt
left. `Timeout(r, i)` is the timeout of interceptor i, which cancels whatever is inside.
`Retryable` stands for `retryable_codes` (an empty list retries everything). The
request's own `idempotency_ttl_s` is read nowhere in the code; `Ttl` is the handlers'. `At`, `Without` and
`Unqueued` say what is found in, and removed from, the `OrderedDict` of a cache and the waiters of a lock.
`Kept[i]` is the time an answer may have been kept by interceptor i and those inside it.

`Idempotency` sees of all this the answers that the outermost cache remembers (`held`), with the keys and the
replies of requests. It says when an answer may be forgotten: when it has expired and somebody asks for its key, or
when another key's answer comes and there is no room (`Evictions`), one at a time; and that a request which finds
a valid answer to its key gets that one and no other.

### Resilience, RateLimiter

A request is a caller of `RateLimiter`, `Bulkhead` and `CircuitBreaker`, whose variables and actions are
instantiated here (`permit` is the bulkhead's `pc`). `stage[r]` says where it is: with the method run
by the breaker (`guarded`), with the method run by the fallback (`rerun`), or `leaving`: answered, while
the chain's generator, from whose middle `on_message` returned, still waits to be closed. `fallback`
is whether a fallback policy is configured. From the arrival of a request to the start of its
method nothing suspends (neither `acquire` of the limiter nor `try_acquire` ever waits), so admission is one step. The
requests are of one tenant, as each tenant has a limiter of its own.

`RateLimiter` keeps ages where the code computes from the time of day: of the last refill, of the
entries of the sliding window, of the fixed window. A second has `Second` ticks, a token as many
parts, so that a bucket gains `rate` parts in a tick. An age stops where nothing more can come of it.
`algorithm` is one of the three or "none", and `recent` a history variable with the calls of the last
second, oldest first. `Outdated` is how many of a list of ages are a second old; `Within` are the others, what
`_cleanup_window` leaves. The clock of the breaker is the same: `timeout_seconds` counts ticks in `Resilience`.

### HealthRegistry, HealthRegistryProofs

`check[c][i]` is the request of checker c (the loop, or a client's call) to instance i: `asked`, or
the answer on its way back. `Order` is the order in which the base registry lists the instances, each of
them somewhere, and `todo` holds the positions that the pass of the loop has still to visit, the
first of them next. `Checked` is `_check_instance` from the answer on, which does not suspend.
A counter stops at its threshold, as nothing but `>= threshold` is asked of it. `fresh` abstracts the
age of `last_check` against the TTL of the cache. `down_since` is a history variable. DEGRADED
and UNKNOWN answers count as failures, as in the code.

### RpcCall, Protocol and the modules of the wires

`RpcCall` is one call of one of the ten client methods over one of four transports:

    sent --Arrive--> arrived --Serve--> served --Answer--> answered
      \--Reject (a conversion raised)-----^                  ^
      \--Refuse (the client raises by itself)---------------/

`RpcCall` takes the wires as parameters: `Refused` is what a client raises without sending anything,
`Arrives` applies the client's and the server's conversions to what was sent, and `Told` the server's and the
client's to the outcome. `HandlerGives` are the outcomes the request handler and the interceptors around
it can give, a choice. An outcome is `Done(items, raised)`: the items given before the end, and the
exception or `None`.

| module | code |
|---|---|
| `Protocol` | messages, enumerations with their wire numbers, error codes, exceptions to codes and back |
| `ThriftTypes` | the structures of `A/thrift_v2/ttypes.py` as rows of (number, type, name), with one `Read` and one `Write` for the methods that the generator wrote out for each class |
| `ThriftServices` | the arguments, results and methods of the three services, one `Process` and one `Receive` for the generated processors and clients |
| `ThriftConversions`, `ThriftTransport` | `ToThrift`, `FromThrift`; the handlers and client methods around the stubs |
| `GrpcConversions`, `GrpcTransport` | `ToProto`, `FromProto`; servicers and client methods. The protobuf messages are known from their use, as `*_pb2.py` is an encoded descriptor |
| `HttpTransport` | JSON-RPC and REST, which share the JSON form of the messages: applications, handlers and client transports |
| `Arrivals` | what any server makes of what it has read: a request, a stream of requests collected into one, or the error of a conversion |
| `Wires` | gRPC, JSON-RPC and REST side by side, the parameters of `RpcCall` in the proofs |
| `MCRpcCall` | all four wires side by side, and what clients send |

In these modules a value is one of a few kinds. Data is `None`, "empty", "ints" or "texts"; a result is
`None`, "ints", "texts" or "object", a value that JSON and protobuf cannot write as it is. "ints" become
"doubles" on gRPC; "object" becomes "dict" in JSON, "_unserializable" on Thrift, and an error
in a gRPC response. Parameters of a submission are "empty", "plain" or "task". Times, and texts nothing
depends on, are left out. The interceptors appear as what they answer: version negotiation (order 2) turns any
exception from further in into a `RuntimeError`, an interceptor that refuses a request aborts it with its own
code, and the tenant interceptor binds the tenant; the operations on tasks and health bypass the chain.

## 4. Runs

| run | shows | bounds |
|---|---|---|
| `CircuitBreaker` | counts, slots and overrun for any mixture of late results, excluded errors, cancellations and resets; every step is one of `BreakerPolicy`, on the evidence of a call that may give it, or a stutter; a recovered service is trusted again unless cancellations lost every slot | 4 callers, thresholds of 2 or less: two in flight from an earlier half-open period and two in this one, each threshold passed in two steps |
| `CircuitBreaker_cancel` | violated: cancelled probes keep their slots and the breaker never closes | 2 callers |
| `TaskManager` | bounded table, no orphan queues, a waiting stream has missed nothing, unfinished tasks are dropped last, polling shows a proper life, streams of `task_subscribe` tell the outcome, and end unless their task is dropped or ends in an event the client did not ask for | 3 ids, a table of 2, 3 records, 1 subscriber; one id is used again and may expire: it is submitted again while the runner of its first record is there, and tasks compete for room. The client asks for all events or for "completed" alone, which a failed task never sends. That the other ids do not expire keeps the run short; the theorems are for any choice. `T2First` leaves out behaviours that only swap t2 and t3 |
| `TaskManager_stream` | violated: the other subscription loop tests the live record and ends without telling the outcome | 1 task, 1 stream |
| `LongTask` | violated: a long task submits itself again and its method is never executed | one long call, one plain call |
| `Bulkhead` | types, slots and placeholders add up, every call ends | 4 callers, 2 slots, a queue of 3: two run, one waits, one puts |
| `Qos` | one flight per key, no run for a remembered answer, fresh answers, and answers forgotten only when expired or for want of room (`Idempotency`) | the two interceptors of the default chain, 3 requests, 2 keys, caches of 1, TTLs 1 and 2, time to 3: eviction and expiry happen with a request waiting |
| `Qos_live` | every request ends though its method may hang | 3 requests, 1 key, both handlers retry |
| `Resilience` | permits and breaker calls follow the requests, the bulkhead bounds the runs of the method, the limiter bounds what reaches the bulkhead within a second, every permit comes back | 3 requests, 2 permits, with and without a fallback, a breaker that opens on one failure, each algorithm with rate and burst of 2 and 2 ticks a second: two requests hold the permits while the third is refused, rejected ones come and go, the window and the bucket run empty and fill again |
| `Resilience_open` | violated: with a fallback, the method runs for every request the open breaker rejects | 2 requests |
| `HealthRegistry` | the status follows the counted results, delayed answers raise no false alarm, an instance that stays down or up is listed accordingly in the end | 1 client's call beside the loop, thresholds of 2, two instances of which the second one's checker raises: as many checkers as the threshold can outvote |
| `RpcCall` | QoS, identity and streamed messages arrive; results, errors and records are told; no failure is taken for success or the other way round | every transport and method; a plain request with one part (identity, QoS, data, stream) filled in at a time, every member of the enumerations, streams of one and of three requests, answers of up to 2 items (`MaxItems`) with an error at each place and with an exception after them. The parts are converted independently, so one at a time is enough |

`MaxRecords` (records created in `TaskManager`), `MaxTime` (the clock of `Qos`) and `Second` (the ticks of a
second in `RateLimiter`) are the only bounds that are not the code's. When the records are used up,
all requests have come and the clock stands, or the one call of `RpcCall` has been answered,
nothing is left to do; the configurations of `TaskManager`, `Qos` and `RpcCall` therefore say
`CHECK_DEADLOCK FALSE`. In the others deadlock is checked.

Some properties state exactly how far a promise goes, and the limit is worth knowing:

* `Bulkhead!PlaceholdersAddUp`: a placeholder stays in the queue while its call runs, so `queue_depth`
  bounds the running calls too; that of a caller cancelled while it waits for the semaphore stays for ever.
* `CircuitBreaker!OverrunIsInherited`: half-open calls may exceed `half_open_max_calls`, by the calls
  an earlier half-open period left running and by no more.
* `Qos!AnswersAreFresh`: with two nested caches an answer may be as old as both TTLs together.
* `RateLimiter!AdmissionsAreBounded`: two fixed windows let twice the rate pass within one second, and
  a bucket its burst and nearly the rate.
* `TaskManager!SubscribersToldOutcome`, `PollingIsConsistent`: for ids that are not used again, as a runner
  finds its record by id and writes to whatever record now has it.
* `TaskManager!SubscriptionEndsUnlessDroppedOrUnheard`: `src/README.md:51` says that a subscription ends by
  itself on completion. Two kinds do not. A stream whose task is evicted or expires waits for ever, as its
  queue is dropped. And `task_subscribe` skips an event the client did not ask for before it tests whether
  the stream is over: a client that asks for "completed" alone, or for "started", waits for ever when the task
  fails. Without the disjunct `Unheard` TLC shows the latter in a few steps: the task fails, the client
  subscribes, "failed" is received and skipped, and the queue stays empty.
* `TaskManager!PollingIsConsistent` allows that a task disappears while it runs: the TTL counts from submission.
  What it excludes is that the runner, which reports later, brings the task back.
* `Qos!AnswersAgree` allows a second run of a method once its answer was evicted for another key.
* `HealthRegistry!DownIsDelisted`, `UpIsListed` are about the instances in front of the first one whose check
  raises (`Reached`). The exception ends the pass of the loop, so it never checks those behind it; clients may.
* `HealthRegistry!NoFalseAlarm`: with more checkers at work than `unhealthy_threshold`, one short
  outage can still mark an instance UNHEALTHY after it was seen healthy again.
* `RpcCall`: each property names what a wire loses. `QosArrives`: the retry strategy, and a delay of 0, on
  gRPC and Thrift. `IdentityArrives`: the scheme "basic" has no number; the JSON-RPC server takes the
  tenant from the HTTP headers, which its client does not set. `OutcomeTold`: results gRPC cannot write
  become errors; an error in a Thrift stream takes the place of the items before it. `RecordTold`: the Thrift
  client takes the wire's number for the priority and reads the result under another name.
  `FailureTold` has no such exception but the first; it covers that every task submitted over gRPC, and over
  Thrift every one without a priority, is refused.

## 5. Fairness

* `CircuitBreaker`: clocks run, callers call again, and a caller whose calls keep being
  admitted gets, again and again, a result that counts (strong fairness: it may also get
  excluded errors in between). The property assumes that from some time on no call fails.
* `TaskManager`: the loop runs ready coroutines (runners, generators), and submitted work ends.
* `LongTask`: runners that are ready run.
* `Bulkhead`: timers fire, granted waiters resume, and callables end.
* `Qos`: the outermost timeout fires, delays end, free locks are handed to their first
  waiter. Nothing is assumed of the method.
* `Resilience`: methods end, and the event loop closes generators nobody holds. Nothing is assumed
  of the clock, so the property does not depend on limiter or breaker letting anything through.
* `HealthRegistry`: a loop that runs comes round, and checks end, as the transports have timeouts
  of their own. The properties assume that the instance stays down (or up) and listed, and
  the loop running, and hold for instances listed before any whose checker raises.

## 6. Proofs

Every safety property that a run checks is also proved, those of `RpcCall` over gRPC, JSON-RPC and
REST, for all values of the constants that the `ASSUME` of the module allows. Each module's proofs stand in a
module of their own, and each theorem `XHolds` (in the first modules `XCorrect`) is about the property `X`. Most
properties are not inductive as they stand; what follows says what had to be added.

`CircuitBreakerProofs`, from `BreakerAssumption`: every set of callers, every configuration of
integers and every choice of who may be cancelled.

* `TypeCorrect`, `[]TypeOK`: inductive as it stands.
* `CountsCorrect`, `[]CountsMatchState`: inductive relative to `TypeOK`.
* `SlotsCorrect`, `[]SlotsAreHeldOrLeaked`: inductive relative to the two above; needs that the
  cardinality of `probes` falls by at most one when a call ends.
* `OverrunCorrect`, `[]OverrunIsInherited`: not inductive. The strengthening is
  `UncountedAreInherited`: the half-open calls that hold no slot of this period number no more
  than `inherited`.
* `PolicyCorrect`, `Spec => PolicyIsKept`: initial states map to initial states and each
  action to a step of `BreakerPolicy` or a stutter, by `CountsMatchState`. In particular no configuration
  of zero or below opens, closes or probes otherwise than the clamped one.

`HealthRegistryProofs`, from `HealthAssumption`: all finite sets of instances and checkers, all
thresholds (also of zero and below).

* `StatusCorrect`, `[]StatusFollowsCounts`: inductive together with the types of the four cache
  variables. Only `Checked` writes them, and `ApplyInvariant` treats it once for every checker.
* `TypeOKHolds`: with the types of the requests in flight and of the pass of the loop. That `First` names a
  position rests on every finite non-empty set of positions having a least one.
* `NoFalseAlarmHolds`: the strengthening `NoPendingAlarm` counts checkers. For an instance that has been up since
  it was last seen healthy, the failures counted and the failures still on their way are together
  fewer than the checkers: each was under way at the last success, with a checker of its own, and the
  checker that brought the success is not among them. With no more checkers than
  `unhealthy_threshold` they cannot reach it.

`BulkheadProofs`, from `BulkheadAssumption`: all finite sets of callers and all integers as
configuration. `IInv == TypeOK /\ Queued /\ SlotsAddUp /\ PlaceholdersAddUp` is inductive:

* `TypeCorrect`, `SlotsCorrect`, `PlaceholdersCorrect`: none is inductive alone. `TypeOK` says that the
  semaphore's value is natural, which needs that no more waiters are woken than there are free slots: at
  most n of the waiters have fewer than n before them (`WakingIsBounded`, an injection into 0..n-1). That
  rests on `Queued`, each waiter being in the list once. `MovesAreCounted` then gives the
  cardinalities for every way in which callers change place.

`TaskManagerProofs`, from `TaskManagerAssumption`: all ids, subscribers, bounds and filters.

* `TypeOKHolds`: the types of all variables, with every task under its own id.
* `NoOrphanQueuesHolds`: inductive relative to the types.
* `TableBoundedHolds`: the strengthening `TableFits` adds that the table is finite; a submit drops as many
  tasks as needed (`DroppedMakesRoom`).
* `ActiveTasksDroppedLastHolds`: in a full table the aggressive pass wants at least one task less, so that
  if any task has finished, the one that finished first goes (`FinishedAreSurplus`, by the least of
  the completion times) and no other need be dropped. So an unfinished task is dropped only if all are
  unfinished, and then it is the oldest (`ActiveIsDropped`).
* `WaitingStreamIsUpToDateHolds`: the strengthening `Current` says, of every registered stream, that each
  queued event, and the one being sent, is of the record its id has in the table, and that with
  nothing queued the client knows its status. `Named` says that a stream that was started has an id.
* `PollingIsConsistentHolds`, `Spec => PollingIsConsistent`: from `Lives`: an id that is not reused has one
  record, whose status goes with its runner. Each step then maps to a step of `TaskLifecycle` or a stutter.
* `SubscribersToldOutcomeHolds`: the strengthening `AllCompleted` says that an event called "completed" is of a
  record that has finished, in the queue as well as while it is sent; it needs `Lives`, as events are not copies.

`RateLimiterProofs`: every rate, burst and number of ticks in a second, `Configured`, which is part of
`ResilienceAssumption`.

* `AdmissionsAreBoundedHolds`: `IInv == TypeOK /\ Ordered(recent) /\ Knows`. What an algorithm keeps is
  related to the ages of the calls admitted in the last second: since a call of some age the bucket has gained
  no more than the rate for that long, so that the tokens taken since and those still there are
  within that and the burst (`BucketPays`); the sliding window, once cleaned, is their list
  (`WindowRemembers`); they are calls of the last fixed window, at most the rate, and then calls of the present
  one, which it counts (`WindowsCount`).

`ResilienceProofs`, from `ResilienceAssumption`: all finite sets of requests and all configurations.

* `ResourcesFollowRequestsHolds`, `RunsFitBulkheadHolds`: from `IInv == Types /\ Counts /\ Follow`. Because
  the interceptor uses `try_acquire` only, nobody is ever waiting or granted, the counts of the bulkhead
  are those of the permits, and each action of `Bulkhead` and `CircuitBreaker` is reduced to what it
  does to one request's permit and call (`TryAcquireMoves`, `FinishMoves`, `BreakerMoves`).
* `PartsImplemented`, `Spec => BreakerP!Spec /\ BulkheadP!Spec /\ LimiterP!Spec`: every step of the composition is,
  for each of the parts, a step of its own specification or a stutter. `BreakerP`, `BulkheadP` and `LimiterP`
  are instances of the parts' modules of proofs, so their theorems hold of the composition.
* `TypeOKHolds`, `ArrivalsAreBoundedHolds`: by that, from the types of the parts and from
  `RateLimiterProofs!AdmissionsAreBoundedHolds`.

`QosProofs`, from `QosAssumption`: any number of interceptors, attempts, keys and requests, any lifetimes
and any size of the caches.

* `SingleFlightHolds`: inductive with the types of `pc`, `depth` and `key`. A request passes a lock
  only in `Descend`, which stops at the first lock taken (`DescendPasses`), and in `LockAcquired`.
* `NoRunWhileRememberedHolds`: the strengthening `NotRemembered`: whoever holds the lock of a key finds the key
  forgotten. It looked after it had got the lock, and only a holder remembers. `DataTypes` says that a cache
  is a list of at most `MaxSize` entries of different keys, and `GetKeeps` and `SetRemembers` what the two
  operations do to the set of its entries.
* `TypeOKHolds`, `AnswersAreFreshHolds`: the strengthening `AnswersKnown`: an entry of cache i is of a run that
  ended, and expires at most `Kept[i]` after it. That the recursion of `Kept` has a solution is proved by a
  least counterexample (`KeptEquation`).
* `AnswersAgreeHolds`, `Spec => AnswersAgree`: under the mapping to what the first cache remembers, each step is
  one of `Idempotency` or a stutter; `NotRemembered` is why an answer is not replaced while it is
  remembered, and the mapping from the list of a cache to the set of its entries says which entries go
  in `Get` and `Set`: the expired one of the key, and the oldest when a new key finds the list full.

`WireProofs`: any requests, streams of any length, methods that answer with any number of items and errors
of any code. The theorems take two hypotheses: `NoneDiffers`, `None` is not one of the
values it stands in for, and `Wired`, the wires are those of `Wires`, as they are in `MCRpcCall`
for all transports but Thrift. `IInv` says of each stage of a call what it is made of: what is served
is what arrived, what was done is one of the handler's outcomes or the error of a conversion, and the outcome is
what the wire tells of it. The rest is about conversions, from the smallest messages to those that contain them.

* `QosArrivesHolds`, `IdentityArrivesHolds`, `StreamArrivesHolds`: from what is left of a retry policy, a QoS
  configuration, credentials, metadata and a request after `ToProto` and `FromProto`, or after JSON.
* `OutcomeToldHolds`: a response keeps its result or its code (`ItemReturns`, `RaisedReturns`); a stream is cut
  at the first item that cannot be sent, or where a client stops reading (`GrpcStreamTells`,
  `JsonStreamTells`, `RestStreamTells`), which `Before` says of any sequence (`BeforeStops`).
* `RecordToldHolds`: a task record, and an event that contains one, return (`RecordReturns`, `EventReturns`).
* `FailureToldHolds`: for methods from the items told; for tasks and health from each operation's own
  answer (`TaskFailureTold`), where every error code has a status that the HTTP client takes for an error.

A sequence is treated as what it is, a function on 1..n, and every lemma says of which n:
`Len` of anything else is never used.

Only model-checked:

* all liveness, `EveryCallEnds`, `RequestsEnd`, `PermitsReturn`, `DownIsDelisted`, `UpIsListed`,
  `SubscriptionEndsUnlessDroppedOrUnheard` and `HealthyServiceClosesUnlessLeaked`: fairness is beyond the prover;
* the properties of `RpcCall` over Thrift: `ThriftTypes` reads and writes nested structures by recursive
  operators, about which nothing can be proved. They are checked for the messages of `MCRpcCall`.

## 7. Not modelled

See `components` in `PROJECT.json`, each with its reason. In short:

* Discovery and selection, RPC execution, the application and the configuration reloader: sequential
  bookkeeping or I/O, and the next parts of the plan. The Nacos client is I/O against an external
  service.
* Security tables, telemetry and the Rust SDK have no behaviour in time and take no part in a call's
  conversions beyond what `RpcCall` has of them.
* Of the limiter: `acquire_or_wait`, `reset` and `update_config`, which nothing calls. Of the resilience
  interceptor: streams, which pass it without breaker and fallback, and `refresh_from_config`, which
  has no caller (it would replace the bulkhead while permits of the old one are held).
* Of the registry: `start()` while the loop runs, which leaves a loop that can no longer be stopped;
  `timeout_seconds` of a health check is read nowhere.
* Of the wires: connections, deadlines, TLS, HTTP bodies that are not what a client of this library
  sends, and every value beyond the kinds of section 3. Among these are results pydantic cannot
  serialize: REST and unary JSON-RPC turn them into an error, a JSON-RPC stream breaks at them.
