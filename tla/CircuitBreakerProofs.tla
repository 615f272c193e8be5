------------------------- MODULE CircuitBreakerProofs -------------------------
(***************************************************************************)
(* Proofs about CircuitBreaker for every configuration and every set of    *)
(* callers: its invariants, and that it implements BreakerPolicy.          *)
(***************************************************************************)
EXTENDS CircuitBreaker, FiniteSetTheorems, TLAPS

(* The clamped parameters are positive (the constructor's max(1, ...)). *)
LEMMA Thresholds ==
  /\ FailureThreshold \in Nat \ {0}
  /\ SuccessThreshold \in Nat \ {0}
  /\ HalfOpenMaxCalls \in Nat \ {0}
  /\ Timeout \in Nat
BY BreakerAssumption
   DEF FailureThreshold, SuccessThreshold, HalfOpenMaxCalls, Timeout, AtLeast

(* Sets of calls are finite, so that they can be counted. *)
LEMMA CallSetsFinite ==
  ASSUME NEW S, S \subseteq Calls
  PROVE  IsFiniteSet(S) /\ Cardinality(S) \in Nat
BY FS_Subset, FS_CardinalityType, BreakerAssumption
-----------------------------------------------------------------------------
(* The counters stay natural numbers, whatever calls and late results do.  *)
THEOREM TypeCorrect == Spec => []TypeOK
<1> USE Thresholds DEF TypeOK, States, None, Idle, HalfOpenCalls
<1>1. Init => TypeOK
  BY DEF Init
<1>2. TypeOK /\ [Next]_vars => TypeOK'
  <2> SUFFICES ASSUME TypeOK, [Next]_vars
               PROVE  TypeOK'
    OBVIOUS
  <2>1. ASSUME NEW c \in Calls, AdmitWhileClosed(c)
        PROVE  TypeOK'
    BY <2>1 DEF AdmitWhileClosed, counters, history
  <2>2. ASSUME NEW c \in Calls, AdmitProbe(c)
        PROVE  TypeOK'
    BY <2>2 DEF AdmitProbe
  <2>3. ASSUME NEW c \in Calls, AdmitFirstProbe(c)
        PROVE  TypeOK'
    BY <2>3, CallSetsFinite DEF AdmitFirstProbe
  <2>4. ASSUME NEW c \in Calls, ProbeSucceeds(c)
        PROVE  TypeOK'
    BY <2>4 DEF ProbeSucceeds, EnterClosed, PeriodOver, Return, Finish, SlotsAfterRelease
  <2>5. ASSUME NEW c \in Calls, SuccessWhileClosed(c)
        PROVE  TypeOK'
    BY <2>5 DEF SuccessWhileClosed, ReleaseSlot, SlotsAfterRelease, Return, Finish
  <2>6. ASSUME NEW c \in Calls, LateResult(c)
        PROVE  TypeOK'
    BY <2>6 DEF LateResult, ReleaseSlot, SlotsAfterRelease, Return, Finish
  <2>7. ASSUME NEW c \in Calls, ProbeFails(c)
        PROVE  TypeOK'
    BY <2>7 DEF ProbeFails, EnterOpen, PeriodOver, Return
  <2>8. ASSUME NEW c \in Calls, FailureWhileClosed(c)
        PROVE  TypeOK'
    BY <2>8 DEF FailureWhileClosed, EnterOpen, PeriodOver,
                ReleaseSlot, SlotsAfterRelease, Return, Finish
  <2>9. ASSUME NEW c \in Calls, Ignored(c)
        PROVE  TypeOK'
    BY <2>9 DEF Ignored, ReleaseSlot, SlotsAfterRelease, Return, Finish
  <2>10. ASSUME NEW c \in Calls, Cancelled(c)
         PROVE  TypeOK'
    BY <2>10 DEF Cancelled, Return, counters
  <2>11. CASE Reset
    BY <2>11 DEF Reset, EnterClosed, PeriodOver
  <2>12. CASE Tick
    BY <2>12 DEF Tick, counters, history
  <2>13. CASE UNCHANGED vars
    BY <2>13 DEF vars, counters, history
  <2>14. QED
    BY <2>1, <2>2, <2>3, <2>4, <2>5, <2>6, <2>7, <2>8, <2>9, <2>10, <2>11, <2>12, <2>13
    DEF Next, BeforeCall, Success, Failure
<1>3. QED
  BY <1>1, <1>2, PTL DEF Spec
-----------------------------------------------------------------------------
(* Counters never belong to a state the breaker has left. *)
THEOREM CountsCorrect == Spec => []CountsMatchState
<1> USE Thresholds DEF CountsMatchState
<1>1. Init => CountsMatchState
  BY DEF Init
<1>2. TypeOK /\ CountsMatchState /\ [Next]_vars => CountsMatchState'
  <2> SUFFICES ASSUME TypeOK, CountsMatchState, [Next]_vars
               PROVE  CountsMatchState'
    OBVIOUS
  <2> USE DEF TypeOK, States, None
  <2>1. ASSUME NEW c \in Calls, AdmitWhileClosed(c)
        PROVE  CountsMatchState'
    BY <2>1 DEF AdmitWhileClosed, counters
  <2>2. ASSUME NEW c \in Calls, AdmitProbe(c)
        PROVE  CountsMatchState'
    BY <2>2 DEF AdmitProbe, SlotFree
  <2>3. ASSUME NEW c \in Calls, AdmitFirstProbe(c)
        PROVE  CountsMatchState'
    BY <2>3 DEF AdmitFirstProbe
  <2>4. ASSUME NEW c \in Calls, ProbeSucceeds(c)
        PROVE  CountsMatchState'
    BY <2>4 DEF ProbeSucceeds, EnterClosed, SlotsAfterRelease
  <2>5. ASSUME NEW c \in Calls, SuccessWhileClosed(c)
        PROVE  CountsMatchState'
    BY <2>5 DEF SuccessWhileClosed, ReleaseSlot, SlotsAfterRelease
  <2>6. ASSUME NEW c \in Calls, LateResult(c)
        PROVE  CountsMatchState'
    BY <2>6 DEF LateResult, ReleaseSlot, SlotsAfterRelease
  <2>7. ASSUME NEW c \in Calls, ProbeFails(c)
        PROVE  CountsMatchState'
    BY <2>7 DEF ProbeFails, EnterOpen
  <2>8. ASSUME NEW c \in Calls, FailureWhileClosed(c)
        PROVE  CountsMatchState'
    BY <2>8 DEF FailureWhileClosed, EnoughFailures, EnterOpen,
                ReleaseSlot, SlotsAfterRelease
  <2>9. ASSUME NEW c \in Calls, Ignored(c)
        PROVE  CountsMatchState'
    BY <2>9 DEF Ignored, ReleaseSlot, SlotsAfterRelease
  <2>10. ASSUME NEW c \in Calls, Cancelled(c)
         PROVE  CountsMatchState'
    BY <2>10 DEF Cancelled, counters
  <2>11. CASE Reset
    BY <2>11 DEF Reset, EnterClosed
  <2>12. CASE Tick
    BY <2>12 DEF Tick, counters
  <2>13. CASE UNCHANGED vars
    BY <2>13 DEF vars, counters
  <2>14. QED
    BY <2>1, <2>2, <2>3, <2>4, <2>5, <2>6, <2>7, <2>8, <2>9, <2>10, <2>11, <2>12, <2>13
    DEF Next, BeforeCall, Success, Failure
<1>3. QED
  BY TypeCorrect, <1>1, <1>2, PTL DEF Spec
-----------------------------------------------------------------------------
(* Counting calls: one more, one less. *)
LEMMA CountAdd ==
  ASSUME NEW S, S \subseteq Calls, NEW c \in Calls
  PROVE  Cardinality(S \cup {c}) = IF c \in S THEN Cardinality(S) ELSE Cardinality(S) + 1
BY CallSetsFinite, FS_AddElement

LEMMA CountRemove ==
  ASSUME NEW S, S \subseteq Calls, NEW c \in Calls
  PROVE  Cardinality(S \ {c}) = IF c \in S THEN Cardinality(S) - 1 ELSE Cardinality(S)
BY CallSetsFinite, FS_RemoveElement

(* Only a cancellation loses a slot.  The proof needs that no slot is      *)
(* taken outside half_open, which is part of CountsMatchState.             *)
THEOREM SlotsCorrect == Spec => []SlotsAreHeldOrLeaked
<1> USE Thresholds DEF SlotsAreHeldOrLeaked, TypeOK, CountsMatchState, States, None, Idle
<1>1. Init => SlotsAreHeldOrLeaked
  BY FS_EmptySet DEF Init
<1>2. ASSUME TypeOK, TypeOK', CountsMatchState, SlotsAreHeldOrLeaked, [Next]_vars
      PROVE  SlotsAreHeldOrLeaked'
  <2> USE <1>2
  <2> DEFINE n == Cardinality(probes)
  <2>1. probes \subseteq Calls /\ n \in Nat
    BY CallSetsFinite DEF HalfOpenCalls
  (* A new period starts from zero; a call that ends takes its slot along. *)
  <2>2. ASSUME PeriodOver, half_open_in_flight' = 0
        PROVE  SlotsAreHeldOrLeaked'
    BY <2>2, FS_EmptySet DEF PeriodOver
  <2>3. ASSUME NEW c \in Calls, Finish(c),
               \/ half_open_in_flight' = SlotsAfterRelease
               \/ half_open_in_flight' = half_open_in_flight /\ c \notin probes
        PROVE  SlotsAreHeldOrLeaked'
    <3>1. Cardinality(probes') = IF c \in probes THEN n - 1 ELSE n
      BY <2>1, <2>3, CountRemove DEF Finish
    <3>2. c \in probes => n > 0
      BY <2>1, FS_EmptySet, CallSetsFinite
    <3>3. QED
      BY <2>1, <2>3, <3>1, <3>2 DEF Finish, SlotsAfterRelease
  <2>4. ASSUME NEW c \in Calls, ReleaseSlot(c), Finish(c)
        PROVE  SlotsAreHeldOrLeaked'
    BY <2>3, <2>4 DEF ReleaseSlot, HalfOpenCalls
  <2>5. ASSUME NEW c \in Calls, BeforeCall(c)
        PROVE  SlotsAreHeldOrLeaked'
    <3>1. CASE AdmitWhileClosed(c)
      BY <3>1 DEF AdmitWhileClosed, counters, history
    <3>2. CASE AdmitProbe(c)
      <4>1. c \notin probes
        BY <3>2 DEF AdmitProbe, HalfOpenCalls
      <4>2. QED
        BY <2>1, <3>2, <4>1, CountAdd DEF AdmitProbe
    <3>3. CASE AdmitFirstProbe(c)
      BY <3>3, FS_Singleton DEF AdmitFirstProbe
    <3>4. QED
      BY <2>5, <3>1, <3>2, <3>3 DEF BeforeCall
  <2>6. ASSUME NEW c \in Calls, Success(c) \/ Failure(c)
        PROVE  SlotsAreHeldOrLeaked'
    <3>1. CASE ProbeSucceeds(c)
      BY <2>2, <2>3, <3>1 DEF ProbeSucceeds, EnterClosed
    <3>2. CASE SuccessWhileClosed(c)
      BY <2>4, <3>2 DEF SuccessWhileClosed
    <3>3. CASE LateResult(c)
      BY <2>4, <3>3 DEF LateResult
    <3>4. CASE ProbeFails(c)
      BY <2>2, <3>4 DEF ProbeFails, EnterOpen
    <3>5. CASE FailureWhileClosed(c)
      BY <2>2, <2>4, <3>5 DEF FailureWhileClosed, EnterOpen
    <3>6. QED
      BY <2>6, <3>1, <3>2, <3>3, <3>4, <3>5 DEF Success, Failure
  <2>7. ASSUME NEW c \in Calls, Ignored(c)
        PROVE  SlotsAreHeldOrLeaked'
    BY <2>4, <2>7 DEF Ignored
  <2>8. ASSUME NEW c \in Calls, Cancelled(c)
        PROVE  SlotsAreHeldOrLeaked'
    <3>1. Cardinality(probes') = IF c \in probes THEN n - 1 ELSE n
      BY <2>1, <2>8, CountRemove DEF Cancelled
    <3>2. QED
      BY <2>1, <2>8, <3>1 DEF Cancelled, counters
  <2>9. CASE Reset
    BY <2>2, <2>9 DEF Reset, EnterClosed
  <2>10. CASE Tick \/ UNCHANGED vars
    BY <2>10 DEF Tick, vars, counters, history
  <2>11. QED
    BY <2>5, <2>6, <2>7, <2>8, <2>9, <2>10 DEF Next
<1>3. QED
  BY TypeCorrect, CountsCorrect, <1>1, <1>2, PTL DEF Spec
-----------------------------------------------------------------------------
(* What is inductive about OverrunIsInherited: a half-open call that is    *)
(* not counted by _half_open_in_flight was there when the period began.    *)
(* A late release lowers both sides by one, or the left one alone.         *)
UncountedAreInherited ==
  state = "half_open" =>
    Cardinality(HalfOpenCalls) <= half_open_in_flight + inherited

(* Half-open calls exceed the limit by at most those of earlier periods. *)
THEOREM OverrunCorrect == Spec => []OverrunIsInherited
<1> USE Thresholds DEF UncountedAreInherited, TypeOK, CountsMatchState, States, None, Idle
<1>1. Init => UncountedAreInherited
  BY DEF Init
<1>2. ASSUME TypeOK, TypeOK', CountsMatchState, UncountedAreInherited, [Next]_vars
      PROVE  UncountedAreInherited'
  <2> USE <1>2
  <2> DEFINE n == Cardinality(HalfOpenCalls)
  <2>1. /\ HalfOpenCalls \subseteq Calls
        /\ HalfOpenCalls' \subseteq Calls
        /\ n \in Nat
    BY CallSetsFinite DEF HalfOpenCalls
  <2>2. CASE state' # "half_open"
    BY <2>2
  <2>3. ASSUME NEW c \in Calls, Return(c), state = "half_open", inherited' = inherited,
               \/ ReleaseSlot(c)
               \/ UNCHANGED half_open_in_flight
        PROVE  UncountedAreInherited'
    <3>1. HalfOpenCalls' = HalfOpenCalls \ {c}
      BY <2>3 DEF Return, HalfOpenCalls
    <3>2. n' = IF c \in HalfOpenCalls THEN n - 1 ELSE n
      BY <2>1, <3>1, CountRemove
    <3>3. c \in HalfOpenCalls => n > 0
      BY <2>1, FS_EmptySet, CallSetsFinite
    <3>4. QED
      BY <2>1, <2>3, <3>2, <3>3 DEF ReleaseSlot, SlotsAfterRelease, HalfOpenCalls
  <2>4. ASSUME NEW c \in Calls, BeforeCall(c)
        PROVE  UncountedAreInherited'
    <3>1. CASE AdmitWhileClosed(c)
      BY <2>2, <3>1 DEF AdmitWhileClosed
    <3>2. ASSUME call_state[c] = Idle, call_state' = [call_state EXCEPT ![c] = "half_open"]
          PROVE  n' = n + 1
      <4>1. HalfOpenCalls' = HalfOpenCalls \cup {c} /\ c \notin HalfOpenCalls
        BY <3>2 DEF HalfOpenCalls
      <4>2. QED
        BY <2>1, <4>1, CountAdd
    <3>3. CASE AdmitProbe(c)
      BY <2>1, <3>2, <3>3 DEF AdmitProbe
    <3>4. CASE AdmitFirstProbe(c)
      BY <2>1, <3>2, <3>4 DEF AdmitFirstProbe
    <3>5. QED
      BY <2>4, <3>1, <3>3, <3>4 DEF BeforeCall
  <2>5. ASSUME NEW c \in Calls, Success(c) \/ Failure(c)
        PROVE  UncountedAreInherited'
    <3>1. CASE ProbeSucceeds(c)
      BY <2>2, <2>3, <3>1 DEF ProbeSucceeds, EnterClosed, ReleaseSlot, Finish
    <3>2. CASE LateResult(c)
      BY <2>2, <2>3, <3>2 DEF LateResult, Finish
    <3>3. CASE SuccessWhileClosed(c)
      BY <2>2, <3>3 DEF SuccessWhileClosed
    <3>4. CASE ProbeFails(c)
      BY <2>2, <3>4 DEF ProbeFails, EnterOpen
    <3>5. CASE FailureWhileClosed(c)
      BY <2>2, <3>5 DEF FailureWhileClosed, EnterOpen
    <3>6. QED
      BY <2>5, <3>1, <3>2, <3>3, <3>4, <3>5 DEF Success, Failure
  <2>6. ASSUME NEW c \in Calls, Ignored(c) \/ Cancelled(c)
        PROVE  UncountedAreInherited'
    BY <2>2, <2>3, <2>6 DEF Ignored, Cancelled, Finish, counters
  <2>7. CASE Reset
    BY <2>2, <2>7 DEF Reset, EnterClosed
  <2>8. CASE Tick \/ UNCHANGED vars
    BY <2>8 DEF Tick, vars, counters, history, HalfOpenCalls
  <2>9. QED
    BY <2>4, <2>5, <2>6, <2>7, <2>8 DEF Next
<1>3. TypeOK /\ CountsMatchState /\ UncountedAreInherited => OverrunIsInherited
  BY CallSetsFinite DEF OverrunIsInherited, HalfOpenCalls
<1>4. QED
  BY TypeCorrect, CountsCorrect, <1>1, <1>2, <1>3, PTL DEF Spec
-----------------------------------------------------------------------------
(* The breaker implements BreakerPolicy: every step is a step of the       *)
(* abstract machine or leaves it unchanged.                                *)
THEOREM PolicyCorrect == Spec => PolicyIsKept
<1> USE Thresholds DEF CountsMatchState, TypeOK, States, None, Idle
<1>1. Init => Policy!Init
  BY DEF Init, Policy!Init
<1>2. ASSUME TypeOK, CountsMatchState, CountsMatchState', [Next]_vars
      PROVE  [Policy!Next]_(Policy!vars)
  <2> USE <1>2
  <2>1. CASE UNCHANGED vars
    <3>1. UNCHANGED Policy!vars
      BY <2>1 DEF vars, counters, Policy!vars
    <3>2. QED
      BY <3>1
  <2>2. ASSUME NEW c \in Calls, AdmitWhileClosed(c) \/ AdmitProbe(c)
        PROVE  Policy!Begin(c)
    BY <2>2 DEF AdmitWhileClosed, AdmitProbe, counters, Policy!Begin, Policy!Admits
  <2>3. ASSUME NEW c \in Calls, LateResult(c) \/ Ignored(c) \/ Cancelled(c)
        PROVE  Policy!EndUncounted(c)
    BY <2>3 DEF LateResult, Ignored, Cancelled, Finish, Return, counters,
                Policy!EndUncounted, Policy!Ends
  <2>4. ASSUME NEW c \in Calls, AdmitFirstProbe(c)
        PROVE  Policy!Probe(c)
    BY <2>4 DEF AdmitFirstProbe, OpenTimeoutElapsed, Policy!Probe, Policy!Become, Policy!Admits
  <2> USE DEF Return, Finish, Policy!Ends, Policy!ProbeEnds
  <2>5. ASSUME NEW c \in Calls, ProbeSucceeds(c)
        PROVE  Policy!CountSuccess(c) \/ Policy!Close(c)
    BY <2>5 DEF ProbeSucceeds, EnterClosed, Policy!CountSuccess, Policy!Close, Policy!Become
  <2>6. ASSUME NEW c \in Calls, SuccessWhileClosed(c)
        PROVE  Policy!ForgetFailures(c)
    BY <2>6 DEF SuccessWhileClosed, Policy!ForgetFailures
  <2>7. ASSUME NEW c \in Calls, ProbeFails(c)
        PROVE  Policy!Reopen(c)
    BY <2>7 DEF ProbeFails, EnterOpen, Policy!Reopen, Policy!Become
  <2>8. ASSUME NEW c \in Calls, FailureWhileClosed(c)
        PROVE  Policy!CountFailure(c) \/ Policy!Trip(c)
    BY <2>8 DEF FailureWhileClosed, EnoughFailures, EnterOpen,
                Policy!CountFailure, Policy!Trip, Policy!Become
  <2>9. ASSUME Reset
        PROVE  Policy!Reset
    BY <2>9 DEF Reset, EnterClosed, Policy!Reset, Policy!Become
  <2>10. ASSUME Tick
         PROVE  Policy!Wait
    BY <2>10 DEF Tick, counters, Policy!Wait
  <2>11. QED
    BY <2>1, <2>2, <2>3, <2>4, <2>5, <2>6, <2>7, <2>8, <2>9, <2>10
    DEF Next, BeforeCall, Success, Failure, Policy!Next
<1>3. QED
  BY TypeCorrect, CountsCorrect, <1>1, <1>2, PTL DEF Spec, PolicyIsKept, Policy!Spec
=============================================================================
