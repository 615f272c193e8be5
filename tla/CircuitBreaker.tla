---------------------------- MODULE CircuitBreaker ----------------------------
(***************************************************************************)
(* resilience/circuit_breaker.py: CircuitBreaker.call() and reset().       *)
(*                                                                         *)
(* Every critical section of the class runs under an asyncio.Lock and      *)
(* contains no await, so the lock is never contended and each section is   *)
(* one atomic step of the event loop.  The guarded callable runs between   *)
(* two sections; other calls interleave there, and there alone a           *)
(* cancellation can strike.  A call that is rejected leaves the breaker    *)
(* as it was: a stuttering step.                                           *)
(*                                                                         *)
(* probes, leaked and inherited are history variables: no guard reads      *)
(* them.  A "period" is one uninterrupted stay in half_open.               *)
(***************************************************************************)
EXTENDS Integers, FiniteSets

CONSTANTS
  Calls,                \* the callers; each makes one call at a time
  Cancellable,          \* those whose task may be cancelled while the callable runs
  failure_threshold,    \* the four numbers of CircuitBreakerConfig, as configured
  success_threshold,
  timeout_seconds,
  half_open_max_calls

ASSUME BreakerAssumption ==
  /\ IsFiniteSet(Calls)
  /\ Cancellable \subseteq Calls
  /\ failure_threshold \in Int
  /\ success_threshold \in Int
  /\ timeout_seconds \in Int
  /\ half_open_max_calls \in Int

VARIABLES
  state,                \* _state
  failure_count,        \* _failure_count
  success_count,        \* _success_count
  opened_at,            \* _opened_at, as the time passed since then, up to the timeout
  half_open_in_flight,  \* _half_open_in_flight
  call_state,           \* what _before_call returned to each running call
  probes,               \* history: running calls admitted in this half-open period
  leaked,               \* history: calls of this period that were cancelled
  inherited             \* history: half-open calls still running when the period began

counters == <<failure_count, success_count, half_open_in_flight>>
history == <<probes, leaked, inherited>>
vars == <<state, counters, opened_at, call_state, history>>
-----------------------------------------------------------------------------
(* The constructor clamps the configured numbers. *)
AtLeast(low, n) == IF n < low THEN low ELSE n

FailureThreshold == AtLeast(1, failure_threshold)
SuccessThreshold == AtLeast(1, success_threshold)
Timeout == AtLeast(0, timeout_seconds)
HalfOpenMaxCalls == AtLeast(1, half_open_max_calls)

States == {"closed", "open", "half_open"}
None == -1
Idle == "idle"

\* Running calls that _before_call admitted in half_open, in this period or before.
HalfOpenCalls == {c \in Calls : call_state[c] = "half_open"}
Running == {c \in Calls : call_state[c] # Idle}

Init ==
  /\ state = "closed"
  /\ failure_count = 0
  /\ success_count = 0
  /\ opened_at = None
  /\ half_open_in_flight = 0
  /\ call_state = [c \in Calls |-> Idle]
  /\ probes = {}
  /\ leaked = 0
  /\ inherited = 0
-----------------------------------------------------------------------------
(* Building blocks: the *_locked helpers.                                  *)

PeriodOver == probes' = {} /\ leaked' = 0 /\ inherited' = 0

EnterOpen ==
  /\ state' = "open"
  /\ opened_at' = 0
  /\ failure_count' = FailureThreshold
  /\ success_count' = 0
  /\ half_open_in_flight' = 0
  /\ PeriodOver

EnterClosedKeepingSlots ==  \* mutant: _half_open_in_flight is not cleared
  /\ state' = "closed"
  /\ opened_at' = None
  /\ failure_count' = 0
  /\ success_count' = 0
  /\ UNCHANGED half_open_in_flight
  /\ PeriodOver

EnterClosed ==
  /\ state' = "closed"
  /\ opened_at' = None
  /\ failure_count' = 0
  /\ success_count' = 0
  /\ half_open_in_flight' = 0
  /\ PeriodOver

\* mutants of SlotsAfterRelease
NothingReleased == half_open_in_flight
ReleaseUnchecked == half_open_in_flight - 1

\* _release_half_open_slot_locked
SlotsAfterRelease ==
  IF half_open_in_flight > 0 THEN half_open_in_flight - 1 ELSE 0

\* the test of _acquire_half_open_slot_locked when n slots are taken
SlotFreeOffByOne(n) == n <= HalfOpenMaxCalls  \* mutant of SlotFree
SlotFree(n) == n < HalfOpenMaxCalls

OpenTimeoutElapsed == opened_at # None /\ opened_at >= Timeout

\* call c leaves the breaker; what it leaves is the caller's business
Return(c) == call_state' = [call_state EXCEPT ![c] = Idle]

Finish(c) == Return(c) /\ probes' = probes \ {c} /\ UNCHANGED <<leaked, inherited>>

ReleaseSlot(c) ==
  IF call_state[c] = "half_open"
  THEN half_open_in_flight' = SlotsAfterRelease
  ELSE UNCHANGED half_open_in_flight
-----------------------------------------------------------------------------
(* _before_call: admit, possibly after turning half-open, or reject. *)

AdmitWhileClosed(c) ==
  /\ call_state[c] = Idle
  /\ state = "closed"
  /\ call_state' = [call_state EXCEPT ![c] = "closed"]
  /\ UNCHANGED <<state, counters, opened_at, history>>

AdmitProbe(c) ==
  /\ call_state[c] = Idle
  /\ state = "half_open"
  /\ SlotFree(half_open_in_flight)
  /\ half_open_in_flight' = half_open_in_flight + 1
  /\ call_state' = [call_state EXCEPT ![c] = "half_open"]
  /\ probes' = probes \cup {c}
  /\ UNCHANGED <<state, failure_count, success_count, opened_at, leaked, inherited>>

AdmitFirstProbe(c) ==
  /\ call_state[c] = Idle
  /\ state = "open"
  /\ OpenTimeoutElapsed
  /\ SlotFree(0)
  /\ state' = "half_open"
  /\ opened_at' = None
  /\ failure_count' = 0
  /\ success_count' = 0
  /\ half_open_in_flight' = 1
  /\ call_state' = [call_state EXCEPT ![c] = "half_open"]
  /\ probes' = {c}
  /\ leaked' = 0
  /\ inherited' = Cardinality(HalfOpenCalls)

BeforeCall(c) == AdmitWhileClosed(c) \/ AdmitProbe(c) \/ AdmitFirstProbe(c)

\* CircuitBreakerOpenError
Rejects ==
  \/ state = "open" /\ ~OpenTimeoutElapsed
  \/ state = "half_open" /\ ~SlotFree(half_open_in_flight)
-----------------------------------------------------------------------------
(* _record_success: the callable returned. *)

ProbeSucceeds(c) ==
  /\ call_state[c] = "half_open"
  /\ state = "half_open"
  /\ IF success_count + 1 >= SuccessThreshold
     THEN EnterClosed /\ Return(c)
     ELSE /\ success_count' = success_count + 1
          /\ half_open_in_flight' = SlotsAfterRelease
          /\ Finish(c)
          /\ UNCHANGED <<state, failure_count, opened_at>>

SuccessWhileClosed(c) ==
  /\ call_state[c] # Idle
  /\ state = "closed"
  /\ failure_count' = 0
  /\ ReleaseSlot(c)
  /\ Finish(c)
  /\ UNCHANGED <<state, success_count, opened_at>>

\* the call began in another state than the breaker is in now: nothing is counted
LateResult(c) ==
  /\ call_state[c] # Idle
  /\ \/ state = "open"
     \/ state = "half_open" /\ call_state[c] = "closed"
  /\ ReleaseSlot(c)
  /\ Finish(c)
  /\ UNCHANGED <<state, failure_count, success_count, opened_at>>

Success(c) == ProbeSucceeds(c) \/ SuccessWhileClosed(c) \/ LateResult(c)
-----------------------------------------------------------------------------
(* _record_failure: the callable raised an exception that counts. *)

AnyFailureReopens(c) ==  \* mutant of ProbeFails: when the call began is not looked at
  /\ call_state[c] # Idle
  /\ state = "half_open"
  /\ EnterOpen
  /\ Return(c)

ProbeFails(c) ==
  /\ call_state[c] = "half_open"
  /\ state = "half_open"
  /\ EnterOpen
  /\ Return(c)

EnoughFailuresOffByOne == failure_count >= FailureThreshold  \* mutant of EnoughFailures
EnoughFailures == failure_count + 1 >= FailureThreshold

FailureWhileClosed(c) ==
  /\ call_state[c] # Idle
  /\ state = "closed"
  /\ IF EnoughFailures
     THEN EnterOpen /\ Return(c)
     ELSE /\ failure_count' = failure_count + 1
          /\ ReleaseSlot(c)
          /\ Finish(c)
          /\ UNCHANGED <<state, success_count, opened_at>>

Failure(c) == ProbeFails(c) \/ FailureWhileClosed(c) \/ LateResult(c)
-----------------------------------------------------------------------------
(* _record_ignored: the callable raised an excluded exception. *)
Ignored(c) ==
  /\ call_state[c] # Idle
  /\ ReleaseSlot(c)
  /\ Finish(c)
  /\ UNCHANGED <<state, failure_count, success_count, opened_at>>

(* The task is cancelled while the callable runs: CancelledError is no     *)
(* Exception, so none of the _record methods is called.                    *)
Cancelled(c) ==
  /\ call_state[c] # Idle
  /\ c \in Cancellable
  /\ Return(c)
  /\ probes' = probes \ {c}
  /\ leaked' = IF c \in probes THEN leaked + 1 ELSE leaked
  /\ UNCHANGED <<state, counters, opened_at, inherited>>

Reset == EnterClosed /\ UNCHANGED call_state

\* time.monotonic() moves on while the breaker is open
Tick ==
  /\ opened_at # None
  /\ opened_at < Timeout
  /\ opened_at' = opened_at + 1
  /\ UNCHANGED <<state, counters, call_state, history>>

Next ==
  \/ \E c \in Calls :
       BeforeCall(c) \/ Success(c) \/ Failure(c) \/ Ignored(c) \/ Cancelled(c)
  \/ Reset
  \/ Tick

Spec == Init /\ [][Next]_vars

(* Clocks run, callers keep calling, and every caller whose calls go on    *)
(* being admitted gets, again and again, an answer that counts.            *)
Fairness ==
  /\ WF_vars(Tick)
  /\ WF_vars(\E c \in Calls : BeforeCall(c))
  /\ \A c \in Calls : SF_vars(Success(c) \/ Failure(c))

FairSpec == Spec /\ Fairness
-----------------------------------------------------------------------------
(* Every counter stays a natural number and the history is about this      *)
(* period: releasing a slot never drives _half_open_in_flight below zero,  *)
(* not even when calls of earlier periods come back.                       *)
TypeOK ==
  /\ state \in States
  /\ failure_count \in Nat
  /\ success_count \in Nat
  /\ opened_at \in (0..Timeout) \cup {None}
  /\ half_open_in_flight \in Nat
  /\ call_state \in [Calls -> {Idle, "closed", "half_open"}]
  /\ probes \subseteq HalfOpenCalls
  /\ leaked \in Nat
  /\ inherited \in Nat

(* No interleaving of late results leaves counters that belong to another  *)
(* state: thresholds are not passed unnoticed, the time of opening is      *)
(* known exactly while open, and slots are taken only while half-open.     *)
CountsMatchState ==
  /\ state = "closed" => failure_count < FailureThreshold /\ success_count = 0
  /\ state = "open" => failure_count = FailureThreshold /\ success_count = 0
  /\ state = "half_open" => failure_count = 0 /\ success_count < SuccessThreshold
  /\ (opened_at # None) <=> (state = "open")
  /\ state # "half_open" => half_open_in_flight = 0
  /\ half_open_in_flight <= HalfOpenMaxCalls

(* Every taken half-open slot is held by a call of this period that is     *)
(* still running, or was lost by one that was cancelled: nothing but a     *)
(* cancellation loses a slot.                                              *)
SlotsAreHeldOrLeaked ==
  half_open_in_flight <= Cardinality(probes) + leaked

(* Half-open calls in flight exceed the configured limit by no more than   *)
(* the calls that earlier periods left running (_enter_half_open_locked    *)
(* forgets those when it zeroes _half_open_in_flight).                     *)
OverrunIsInherited ==
  state = "half_open" =>
    Cardinality(HalfOpenCalls) <= HalfOpenMaxCalls + inherited

(* The breaker changes state only on the evidence its documentation asks   *)
(* for, given by the calls that may give it: a call admitted while the     *)
(* breaker was closed neither closes nor reopens it when its result comes  *)
(* late, in a half-open period.  See BreakerPolicy.                        *)
Policy == INSTANCE BreakerPolicy WITH
  FailuresToOpen <- FailureThreshold,
  SuccessesToClose <- SuccessThreshold,
  OpenTime <- Timeout,
  state <- state,
  score <- IF state = "closed" THEN failure_count ELSE success_count,
  age <- IF opened_at = None THEN 0 ELSE opened_at,
  began <- call_state

PolicyIsKept == Policy!Spec

(* A service that has recovered is trusted again: if from some time on no  *)
(* call fails, the breaker is eventually closed for good ...               *)
ServiceRecovers == <>[][\A c \in Calls : ~Failure(c)]_vars
HealthyServiceCloses == ServiceRecovers => <>[](state = "closed")

(* ... provided cancelled calls have not lost every half-open slot: late   *)
(* results, ignored errors and resets at any moment do not prevent it.     *)
SlotRemains == <>[](leaked < HalfOpenMaxCalls)
HealthyServiceClosesUnlessLeaked ==
  ServiceRecovers /\ SlotRemains => <>[](state = "closed")
=============================================================================
