----------------------------- MODULE Resilience -----------------------------
(***************************************************************************)
(* server/interceptors/resilience.py: ServerResilienceInterceptor and      *)
(* ResilienceHandler around one unary request, with the FallbackExecutor   *)
(* of resilience/fallback.py.  Modules RateLimiter, CircuitBreaker and     *)
(* Bulkhead are composed here: a request is a caller of all.  The requests *)
(* are of one tenant, as each tenant has a limiter of its own.             *)
(*                                                                         *)
(* The path from the arrival of a request to the start of its method does  *)
(* not suspend, so it is one step, and so is the path from the end of the  *)
(* method to the response or error.  The interceptor takes permits by      *)
(* try_acquire only: nobody waits in the bulkhead.  An error unwinds the   *)
(* interceptor chain at once.  A response does not: on_message returns     *)
(* from the middle of the chain's generator, which the event loop closes   *)
(* later; until then the request keeps its permit ("leaving").             *)
(***************************************************************************)
EXTENDS Integers, Sequences, FiniteSets

CONSTANTS
  Requests,                       \* callers; each makes one request after another
  max_concurrent, queue_depth,    \* of the bulkhead
  failure_threshold, success_threshold, timeout_seconds, half_open_max_calls,
  rate, burst, Second             \* of the limiter; timeout_seconds counts its ticks

VARIABLES
  fallback,  \* is there a fallback executor?
  stage,     \* where each request is
  runs,      \* auxiliary: how often the present request has started the method
  permit, waiters, value, items, active, lost,                        \* Bulkhead
  state, failure_count, success_count, opened_at, half_open_in_flight,
  call_state, probes, leaked, inherited,                              \* CircuitBreaker
  algorithm, bucket_tokens, bucket_last, sliding_window,
  fixed_window_start, fixed_window_count, recent                      \* RateLimiter

bulkhead == <<permit, waiters, value, items, active, lost>>
breaker == <<state, failure_count, success_count, opened_at, half_open_in_flight,
             call_state, probes, leaked, inherited>>
limiter == <<algorithm, bucket_tokens, bucket_last, sliding_window,
             fixed_window_start, fixed_window_count, recent>>
vars == <<fallback, stage, runs, bulkhead, breaker, limiter>>

Bulkhead == INSTANCE Bulkhead WITH Callers <- Requests, Cancels <- TRUE, pc <- permit

Breaker == INSTANCE CircuitBreaker WITH Calls <- Requests, Cancellable <- Requests

Limiter == INSTANCE RateLimiter

ASSUME ResilienceAssumption ==
  /\ IsFiniteSet(Requests)
  /\ max_concurrent \in Int /\ queue_depth \in Int
  /\ failure_threshold \in Int /\ success_threshold \in Int
  /\ timeout_seconds \in Int /\ half_open_max_calls \in Int
  /\ Limiter!Configured
-----------------------------------------------------------------------------
Init ==
  /\ fallback \in BOOLEAN
  /\ stage = [r \in Requests |-> "idle"]
  /\ runs = [r \in Requests |-> 0]
  /\ Bulkhead!Init
  /\ Breaker!Init
  /\ Limiter!Init

Goto(r, s) == stage' = [stage EXCEPT ![r] = s] /\ UNCHANGED fallback

\* the method is started, by the breaker ("guarded") or by the fallback ("rerun")
StartAndLeave(r, s) ==  \* mutant of Start: the handler does not wait for the method
  Goto(r, "leaving") /\ runs' = [runs EXCEPT ![r] = @ + 1]

Start(r, s) == Goto(r, s) /\ runs' = [runs EXCEPT ![r] = @ + 1]

\* the chain is left with a response, an error, or CancelledError
Respond(r) == Goto(r, "leaving") /\ UNCHANGED <<runs, bulkhead>>

UnwindKeepingPermit(r) ==  \* mutant of Unwind
  Goto(r, "idle") /\ runs' = [runs EXCEPT ![r] = 0] /\ UNCHANGED bulkhead

Unwind(r) ==
  /\ Goto(r, "idle")
  /\ runs' = [runs EXCEPT ![r] = 0]
  /\ Bulkhead!Finish(r)
-----------------------------------------------------------------------------
(* Arrival: rate limiter, bulkhead, breaker *)

\* RATE_LIMITED: what the limiter stops takes nothing else
Limited(r) ==
  /\ stage[r] = "idle"
  /\ ~Limiter!Admits
  /\ Limiter!Acquire
  /\ UNCHANGED <<fallback, stage, runs, bulkhead, breaker>>

Passes(r) ==
  /\ stage[r] = "idle"
  /\ Limiter!Admits
  /\ Limiter!Acquire

\* RESOURCE_EXHAUSTED: the token is spent
Refused(r) ==
  /\ Passes(r)
  /\ Bulkhead!TryAcquire(r)
  /\ permit'[r] # "running"
  /\ UNCHANGED <<fallback, stage, runs, breaker>>

\* the last alternative: an interceptor further in aborts the request
Admitted(r) ==
  /\ Passes(r)
  /\ Bulkhead!TryAcquire(r)
  /\ permit'[r] = "running"
  /\ \/ Breaker!BeforeCall(r) /\ Start(r, "guarded")
     \/ Breaker!Rejects /\ fallback /\ Start(r, "rerun") /\ UNCHANGED breaker
     \/ Goto(r, "leaving") /\ UNCHANGED <<runs, breaker>>

\* CircuitBreakerOpenError goes to the client: the permit is taken and given back
Rejected(r) ==
  /\ Passes(r)
  /\ ~Bulkhead!Locked /\ ~Bulkhead!QueueFull
  /\ Breaker!Rejects
  /\ ~fallback
  /\ UNCHANGED <<fallback, stage, runs, bulkhead, breaker>>
-----------------------------------------------------------------------------
(* The method, called by the breaker *)

MethodReturns(r) ==
  /\ stage[r] = "guarded"
  /\ Breaker!Success(r)
  /\ Respond(r)
  /\ UNCHANGED limiter

\* any exception, counted by the breaker or not, makes the fallback run the method again
MethodRaises(r) ==
  /\ stage[r] = "guarded"
  /\ Breaker!Failure(r) \/ Breaker!Ignored(r)
  /\ \/ fallback /\ Start(r, "rerun") /\ UNCHANGED bulkhead
     \/ ~fallback /\ Unwind(r)
  /\ UNCHANGED limiter
-----------------------------------------------------------------------------
(* The method, called by FallbackExecutor.execute *)

\* it returns, or a fallback handler has a value instead
RerunReturns(r) == stage[r] = "rerun" /\ Respond(r) /\ UNCHANGED <<breaker, limiter>>

\* it raises, and no fallback handler helps
RerunRaises(r) == stage[r] = "rerun" /\ Unwind(r) /\ UNCHANGED <<breaker, limiter>>
-----------------------------------------------------------------------------
Cancelled(r) ==
  /\ \/ stage[r] = "guarded" /\ Breaker!Cancelled(r)
     \/ stage[r] = "rerun" /\ UNCHANGED breaker
  /\ Unwind(r)
  /\ UNCHANGED limiter

\* the event loop closes the generator: the finally clauses of the interceptors
Finalized(r) == stage[r] = "leaving" /\ Unwind(r) /\ UNCHANGED <<breaker, limiter>>

\* the limiter and an open breaker look at the same clock
Tick ==
  /\ Limiter!Tick
  /\ IF state = "open" /\ ~Breaker!OpenTimeoutElapsed THEN Breaker!Tick ELSE UNCHANGED breaker
  /\ UNCHANGED <<fallback, stage, runs, bulkhead>>

Next ==
  \/ \E r \in Requests :
       \/ Limited(r) \/ Refused(r) \/ Admitted(r) \/ Rejected(r)
       \/ MethodReturns(r) \/ MethodRaises(r) \/ RerunReturns(r) \/ RerunRaises(r)
       \/ Cancelled(r) \/ Finalized(r)
  \/ Tick

Spec == Init /\ [][Next]_vars

\* methods end and generators are closed
FairSpec ==
  /\ Spec
  /\ \A r \in Requests :
       /\ WF_vars(MethodReturns(r) \/ MethodRaises(r))
       /\ WF_vars(RerunReturns(r) \/ RerunRaises(r))
       /\ WF_vars(Finalized(r))
-----------------------------------------------------------------------------
TypeOK ==
  /\ stage \in [Requests -> {"idle", "guarded", "rerun", "leaving"}]
  /\ fallback \in BOOLEAN
  /\ runs \in [Requests -> Nat]
  /\ permit \in [Requests -> {"idle", "refused", "running"}]  \* nobody waits for one
  /\ Breaker!TypeOK
  /\ Bulkhead!TypeOK
  /\ Limiter!TypeOK

(* A request holds a permit of the bulkhead from its admission until its   *)
(* response has left, and a call of the breaker while that runs the method;*)
(* errors, fallbacks and cancellations return each exactly once.           *)
ResourcesFollowRequests ==
  \A r \in Requests :
    /\ (permit[r] = "running") = (stage[r] # "idle")
    /\ (call_state[r] # Breaker!Idle) = (stage[r] = "guarded")

(* The bulkhead bounds how often the method runs at a time, the runs of    *)
(* the fallback included.                                                  *)
RunsFitBulkhead ==
  /\ Cardinality({r \in Requests : stage[r] \in {"guarded", "rerun"}}) <= active
  /\ Bulkhead!SlotsAddUp
  /\ Bulkhead!PlaceholdersAddUp

(* Of the requests of a tenant, those that reach the bulkhead within a     *)
(* second are bounded by its limiter, though the bulkhead and the breaker  *)
(* may turn them away and the bucket is refilled only when one arrives.    *)
ArrivalsAreBounded == Limiter!AdmissionsAreBounded

(* Every permit comes back, though the response leaves before it does.     *)
PermitsReturn == \A r \in Requests : permit[r] = "running" ~> permit[r] # "running"

(* "the alternative response while the circuit is open"                    *)
(* (docs/interceptors_guide.md:75): no method is started while the breaker *)
(* is, and stays, open.                                                    *)
NoRunWhileOpen ==
  [][\A r \in Requests :
       runs'[r] > runs[r] => ~(state = "open" /\ state' = "open")]_vars
=============================================================================
