-------------------------- MODULE ResilienceProofs --------------------------
(***************************************************************************)
(* For any requests and configuration of limiter, bulkhead and breaker:    *)
(* what a request holds of the bulkhead and of the breaker goes with its   *)
(* stage, so the runs of the method are bounded by the bulkhead.  Since    *)
(* the interceptor only ever tries to acquire a permit, nobody waits for   *)
(* one, and the counts of the bulkhead are those of the permits (Held).    *)
(*                                                                         *)
(* Each part, seen by itself, then still runs as its own module says, so   *)
(* that what is proved of limiter, bulkhead and breaker holds here.        *)
(***************************************************************************)
EXTENDS Resilience, TLAPS, FiniteSetTheorems

Stages == {"idle", "guarded", "rerun", "leaving"}
Held == {r \in Requests : permit[r] = "running"}

Types ==
  /\ stage \in [Requests -> Stages]
  /\ permit \in [Requests -> {"idle", "refused", "running"}]
  /\ call_state \in [Requests -> {"idle", "closed", "half_open"}]

Counts ==
  /\ value \in Int /\ items \in Int /\ active \in Int /\ lost \in Int
  /\ value + Cardinality(Held) = Bulkhead!MaxConcurrent
  /\ active = Cardinality(Held)
  /\ items = Cardinality(Held) + lost
  /\ lost >= 0

Follow ==
  \A r \in Requests :
    /\ (permit[r] = "running") <=> (stage[r] # "idle")
    /\ (call_state[r] # "idle") <=> (stage[r] = "guarded")

IInv == Types /\ Counts /\ Follow

LEMMA SameCardinality == \A S : Bulkhead!Cardinality(S) = Cardinality(S)
BY DEF Bulkhead!Cardinality, Cardinality

LEMMA HeldFinite == IsFiniteSet(Held) /\ Cardinality(Held) \in Nat
<1>1. Held \subseteq Requests /\ IsFiniteSet(Requests)
  BY ResilienceAssumption DEF Held
<1>. QED BY <1>1, FS_Subset, FS_CardinalityType
-----------------------------------------------------------------------------
(* The breaker *)

BreakerUnchanged == UNCHANGED call_state
Admits(r) == call_state' = [call_state EXCEPT ![r] = "closed"]
             \/ call_state' = [call_state EXCEPT ![r] = "half_open"]
Releases(r) == call_state' = [call_state EXCEPT ![r] = "idle"]

LEMMA BreakerMoves ==
  ASSUME NEW r \in Requests
  PROVE  /\ Breaker!BeforeCall(r) => Admits(r)
         /\ Breaker!Success(r) => Releases(r)
         /\ Breaker!Failure(r) => Releases(r)
         /\ Breaker!Ignored(r) => Releases(r)
         /\ Breaker!Cancelled(r) => Releases(r)
<1>1. Breaker!BeforeCall(r) => Admits(r)
  BY DEF Breaker!BeforeCall, Breaker!AdmitWhileClosed, Breaker!AdmitProbe, Breaker!AdmitFirstProbe, Admits
<1>2. Breaker!Finish(r) \/ Breaker!Return(r) => Releases(r)
  BY DEF Breaker!Finish, Breaker!Return, Breaker!Idle, Releases
<1>3. Breaker!LateResult(r) => Releases(r)
  BY <1>2 DEF Breaker!LateResult
<1>4. Breaker!Success(r) => Releases(r)
  BY <1>2, <1>3 DEF Breaker!Success, Breaker!ProbeSucceeds, Breaker!SuccessWhileClosed
<1>5. Breaker!Failure(r) => Releases(r)
  BY <1>2, <1>3 DEF Breaker!Failure, Breaker!ProbeFails, Breaker!FailureWhileClosed
<1>. QED BY <1>1, <1>2, <1>4, <1>5 DEF Breaker!Ignored, Breaker!Cancelled
-----------------------------------------------------------------------------
(* The bulkhead *)

Taken(r) ==
  /\ permit' = [permit EXCEPT ![r] = "running"]
  /\ value' = value - 1 /\ items' = items + 1 /\ active' = active + 1 /\ lost' = lost

Returned(r) ==
  /\ permit' = [permit EXCEPT ![r] = "idle"]
  /\ value' = value + 1 /\ items' = items - 1 /\ active' = active - 1 /\ lost' = lost

LEMMA TryAcquireMoves ==
  ASSUME IInv, NEW r \in Requests, Bulkhead!TryAcquire(r)
  PROVE  IF permit'[r] = "running" THEN Taken(r)
         ELSE /\ permit' = [permit EXCEPT ![r] = "refused"]
              /\ UNCHANGED <<value, items, active, lost>>
<1>1. permit \in [Requests -> {"idle", "refused", "running"}]
  BY DEF IInv, Types
<1>2. CASE Bulkhead!Goto(r, "refused")
  BY <1>1, <1>2 DEF Bulkhead!Goto
<1>3. CASE ~Bulkhead!Locked /\ Bulkhead!Put(r)
  BY <1>1, <1>3 DEF Bulkhead!Put, Taken
<1>. QED BY <1>2, <1>3 DEF Bulkhead!TryAcquire

LEMMA FinishMoves ==
  ASSUME IInv, NEW r \in Requests, Bulkhead!Finish(r)
  PROVE  Returned(r)
<1>1. permit \in [Requests -> {"idle", "refused", "running"}] /\ permit[r] = "running"
  BY DEF IInv, Types, Bulkhead!Finish
<1>2. Bulkhead!In("waiting") = {}
  BY <1>1 DEF Bulkhead!In
<1>3. Bulkhead!Woken(1, Bulkhead!In("waiting")) = {}
  BY <1>2 DEF Bulkhead!Woken
<1>4. Cardinality(Held) # 0
  <2>1. r \in Held
    BY <1>1 DEF Held
  <2>. QED BY <2>1, HeldFinite, FS_EmptySet
<1>5. active >= 1 /\ items >= 1 /\ active \in Int /\ items \in Int /\ value \in Int
  BY <1>4, HeldFinite DEF IInv, Counts
<1>6. PICK woken : woken = Bulkhead!Woken(1, Bulkhead!In("waiting"))
  OBVIOUS
<1>7. /\ permit' = [d \in Requests |-> IF d = r THEN "idle"
                                       ELSE IF d \in woken THEN "granted" ELSE permit[d]]
      /\ value' = value + 1 - Cardinality(woken)
      /\ items' = Bulkhead!AtLeast(0, items - 1) /\ active' = Bulkhead!AtLeast(0, active - 1)
      /\ lost' = lost
  <2>1. permit' = [d \in Requests |-> IF d = r THEN "idle"
                                     ELSE IF d \in woken THEN "granted" ELSE permit[d]]
    BY <1>6 DEF Bulkhead!Finish, Bulkhead!Release
  <2>2. value' = value + 1 - Cardinality(woken)
    BY <1>6, SameCardinality DEF Bulkhead!Finish, Bulkhead!Release
  <2>3. items' = Bulkhead!AtLeast(0, items - 1) /\ active' = Bulkhead!AtLeast(0, active - 1)
    BY DEF Bulkhead!Finish, Bulkhead!Release
  <2>4. lost' = lost
    BY DEF Bulkhead!Finish, Bulkhead!Release
  <2>. QED BY <2>1, <2>2, <2>3, <2>4
<1>8. Cardinality({}) = 0
  BY FS_EmptySet
<1>9. permit' = [permit EXCEPT ![r] = "idle"]
  <2>1. permit' = [d \in Requests |-> IF d = r THEN "idle" ELSE permit[d]]
    BY <1>3, <1>6, <1>7
  <2>. QED BY <1>1, <2>1
<1>10. value' = value + 1
  BY <1>3, <1>5, <1>6, <1>7, <1>8
<1>11. items' = items - 1 /\ active' = active - 1
  BY <1>5, <1>7 DEF Bulkhead!AtLeast
<1>. QED BY <1>7, <1>9, <1>10, <1>11 DEF Returned

LEMMA PermitsAreCounted ==
  ASSUME IInv, NEW r \in Requests,
         \/ Taken(r) /\ permit[r] # "running"
         \/ Returned(r) /\ permit[r] = "running"
         \/ UNCHANGED <<permit, value, items, active, lost>>
         \/ /\ permit' = [permit EXCEPT ![r] = "refused"] /\ permit[r] # "running"
            /\ UNCHANGED <<value, items, active, lost>>
  PROVE  Counts'
<1>0. permit \in [Requests -> {"idle", "refused", "running"}] /\ IsFiniteSet(Held) /\ Cardinality(Held) \in Nat
  BY HeldFinite DEF IInv, Types
<1>1. CASE Taken(r) /\ permit[r] # "running"
  <2>1. Held' = Held \cup {r} /\ r \notin Held
    BY <1>0, <1>1 DEF Taken, Held
  <2>2. Cardinality(Held') = Cardinality(Held) + 1
    BY <1>0, <2>1, FS_AddElement
  <2>. QED BY <1>0, <1>1, <2>2 DEF Taken, IInv, Counts, Bulkhead!MaxConcurrent, Bulkhead!AtLeast
<1>2. CASE Returned(r) /\ permit[r] = "running"
  <2>1. Held' = Held \ {r} /\ r \in Held
    BY <1>0, <1>2 DEF Returned, Held
  <2>2. Cardinality(Held') = Cardinality(Held) - 1
    BY <1>0, <2>1, FS_RemoveElement
  <2>. QED BY <1>0, <1>2, <2>2 DEF Returned, IInv, Counts, Bulkhead!MaxConcurrent, Bulkhead!AtLeast
<1>3. CASE UNCHANGED <<permit, value, items, active, lost>>
  BY <1>3 DEF IInv, Counts, Held, Bulkhead!MaxConcurrent
<1>4. CASE /\ permit' = [permit EXCEPT ![r] = "refused"] /\ permit[r] # "running"
           /\ UNCHANGED <<value, items, active, lost>>
  <2>1. Held' = Held
    BY <1>0, <1>4 DEF Held
  <2>. QED BY <1>4, <2>1 DEF IInv, Counts, Bulkhead!MaxConcurrent
<1>. QED BY <1>1, <1>2, <1>3, <1>4
-----------------------------------------------------------------------------
(* The request *)

\* r goes to a stage, with what it holds there
Stepped(r, s) ==
  /\ stage' = [stage EXCEPT ![r] = s] /\ s \in Stages
  /\ \/ Taken(r) /\ permit[r] # "running" /\ s # "idle"
     \/ Returned(r) /\ permit[r] = "running" /\ s = "idle"
     \/ UNCHANGED <<permit, value, items, active, lost>> /\ permit[r] = "running" /\ s # "idle"
  /\ \/ Admits(r) /\ s = "guarded"
     \/ Releases(r) /\ s # "guarded"
     \/ UNCHANGED call_state /\ call_state[r] = "idle" /\ s # "guarded"

LEMMA SteppedInvariant ==
  ASSUME IInv, NEW r \in Requests, NEW s, Stepped(r, s)
  PROVE  IInv'
<1>1. Counts'
  BY PermitsAreCounted DEF Stepped
<1>2. permit' \in [Requests -> {"idle", "refused", "running"}]
      /\ (permit'[r] = "running" <=> s # "idle")
      /\ \A q \in Requests \ {r} : permit'[q] = permit[q]
  BY DEF IInv, Types, Stepped, Taken, Returned
<1>3. call_state' \in [Requests -> {"idle", "closed", "half_open"}]
      /\ (call_state'[r] # "idle" <=> s = "guarded")
      /\ \A q \in Requests \ {r} : call_state'[q] = call_state[q]
  BY DEF IInv, Types, Stepped, Admits, Releases
<1>4. stage' \in [Requests -> Stages] /\ stage'[r] = s
      /\ \A q \in Requests \ {r} : stage'[q] = stage[q]
  BY DEF IInv, Types, Stepped
<1>5. ASSUME NEW q \in Requests
      PROVE  /\ (permit'[q] = "running") <=> (stage'[q] # "idle")
             /\ (call_state'[q] # "idle") <=> (stage'[q] = "guarded")
  BY <1>2, <1>3, <1>4 DEF IInv, Follow
<1>. QED BY <1>1, <1>2, <1>3, <1>4, <1>5 DEF IInv, Types, Follow

LEMMA InitInvariant == Init => IInv
<1> SUFFICES ASSUME Init PROVE IInv
  OBVIOUS
<1>1. /\ stage = [r \in Requests |-> "idle"] /\ permit = [r \in Requests |-> "idle"]
      /\ call_state = [r \in Requests |-> "idle"]
      /\ value = Bulkhead!MaxConcurrent /\ items = 0 /\ active = 0 /\ lost = 0
  BY DEF Init, Bulkhead!Init, Breaker!Init, Breaker!Idle
<1>2. Types /\ Follow
  BY <1>1 DEF Types, Stages, Follow
<1>3. Held = {}
  BY <1>1 DEF Held
<1>4. Cardinality(Held) = 0
  BY <1>3, FS_EmptySet
<1>5. Bulkhead!MaxConcurrent \in Int
  BY ResilienceAssumption DEF Bulkhead!MaxConcurrent, Bulkhead!AtLeast
<1>6. Counts
  BY <1>1, <1>4, <1>5 DEF Counts
<1>. QED BY <1>2, <1>6 DEF IInv

(* Each action as a step of its request.                                   *)
LEMMA AdmittedSteps ==
  ASSUME IInv, NEW r \in Requests, Admitted(r)
  PROVE  \E s : Stepped(r, s)
<1>1. /\ stage[r] = "idle" /\ permit[r] # "running" /\ call_state[r] = "idle"
      /\ Bulkhead!TryAcquire(r) /\ permit'[r] = "running"
  BY DEF Admitted, Passes, IInv, Follow
<1>2. Taken(r)
  BY <1>1, TryAcquireMoves
<1>3. CASE Breaker!BeforeCall(r) /\ Start(r, "guarded")
  <2>1. Stepped(r, "guarded")
    BY <1>1, <1>2, <1>3, BreakerMoves DEF Start, Goto, Stepped, Stages
  <2>. QED BY <2>1
<1>4. CASE Start(r, "rerun") /\ UNCHANGED breaker
  <2>1. Stepped(r, "rerun")
    BY <1>1, <1>2, <1>4 DEF Start, Goto, Stepped, Stages, breaker
  <2>. QED BY <2>1
<1>5. CASE Goto(r, "leaving") /\ UNCHANGED <<runs, breaker>>
  <2>1. Stepped(r, "leaving")
    BY <1>1, <1>2, <1>5 DEF Goto, Stepped, Stages, breaker
  <2>. QED BY <2>1
<1>. QED BY <1>3, <1>4, <1>5 DEF Admitted

LEMMA MethodSteps ==
  ASSUME IInv, NEW r \in Requests,
         MethodReturns(r) \/ MethodRaises(r) \/ (Cancelled(r) /\ stage[r] = "guarded")
  PROVE  \E s : Stepped(r, s)
<1>1. stage[r] = "guarded" /\ permit[r] = "running"
  BY DEF MethodReturns, MethodRaises, IInv, Follow
<1>2. Releases(r)
  BY <1>1, BreakerMoves DEF MethodReturns, MethodRaises, Cancelled
<1>3. CASE Respond(r)
  <2>1. Stepped(r, "leaving")
    BY <1>1, <1>2, <1>3 DEF Respond, Goto, bulkhead, Stepped, Stages
  <2>. QED BY <2>1
<1>4. CASE Start(r, "rerun") /\ UNCHANGED bulkhead
  <2>1. Stepped(r, "rerun")
    BY <1>1, <1>2, <1>4 DEF Start, Goto, bulkhead, Stepped, Stages
  <2>. QED BY <2>1
<1>5. CASE Unwind(r)
  <2>1. Stepped(r, "idle")
    BY <1>1, <1>2, <1>5, FinishMoves DEF Unwind, Goto, Stepped, Stages
  <2>. QED BY <2>1
<1>. QED BY <1>3, <1>4, <1>5 DEF MethodReturns, MethodRaises, Cancelled

LEMMA OtherSteps ==
  ASSUME IInv, NEW r \in Requests,
         \/ RerunReturns(r) \/ RerunRaises(r) \/ Finalized(r)
         \/ Cancelled(r) /\ stage[r] # "guarded"
  PROVE  \E s : Stepped(r, s)
<1>1. /\ stage[r] \in {"rerun", "leaving"} /\ permit[r] = "running" /\ call_state[r] = "idle"
      /\ UNCHANGED call_state
  BY DEF RerunReturns, RerunRaises, Finalized, Cancelled, IInv, Follow, breaker
<1>2. CASE Respond(r)
  <2>1. Stepped(r, "leaving")
    BY <1>1, <1>2 DEF Respond, Goto, bulkhead, Stepped, Stages
  <2>. QED BY <2>1
<1>3. CASE Unwind(r)
  <2>1. Stepped(r, "idle")
    BY <1>1, <1>3, FinishMoves DEF Unwind, Goto, Stepped, Stages
  <2>. QED BY <2>1
<1>. QED BY <1>2, <1>3 DEF RerunReturns, RerunRaises, Finalized, Cancelled

(* Steps that leave every request where it is.                             *)
LEMMA NothingMoves ==
  ASSUME IInv, UNCHANGED <<stage, bulkhead, call_state>>
  PROVE  IInv'
BY DEF IInv, Types, Counts, Follow, Held, bulkhead, Bulkhead!MaxConcurrent

LEMMA NextInvariant == IInv /\ [Next]_vars => IInv'
<1> SUFFICES ASSUME IInv, [Next]_vars PROVE IInv'
  OBVIOUS
<1>1. ASSUME NEW r \in Requests, Limited(r) \/ Rejected(r) PROVE IInv'
  BY <1>1, NothingMoves DEF Limited, Rejected, breaker
<1>2. ASSUME NEW r \in Requests, Refused(r) PROVE IInv'
  <2>1. /\ permit' = [permit EXCEPT ![r] = "refused"]
        /\ UNCHANGED <<value, items, active, lost, stage, call_state>>
    BY <1>2, TryAcquireMoves DEF Refused, breaker
  <2>2. permit[r] # "running"
    BY <1>2 DEF Refused, Passes, IInv, Follow
  <2>3. Counts'
    BY <2>1, <2>2, PermitsAreCounted
  <2>. QED BY <2>1, <2>2, <2>3 DEF IInv, Types, Follow
<1>3. ASSUME NEW r \in Requests, Admitted(r) PROVE IInv'
  BY <1>3, AdmittedSteps, SteppedInvariant
<1>4. ASSUME NEW r \in Requests, MethodReturns(r) \/ MethodRaises(r) PROVE IInv'
  BY <1>4, MethodSteps, SteppedInvariant
<1>5. ASSUME NEW r \in Requests, RerunReturns(r) \/ RerunRaises(r) \/ Finalized(r) PROVE IInv'
  BY <1>5, OtherSteps, SteppedInvariant
<1>6. ASSUME NEW r \in Requests, Cancelled(r) PROVE IInv'
  BY <1>6, MethodSteps, OtherSteps, SteppedInvariant
<1>7. CASE Tick
  <2>1. UNCHANGED <<stage, bulkhead, call_state>>
    BY <1>7 DEF Tick, breaker, Breaker!Tick
  <2>. QED BY <2>1, NothingMoves
<1>8. CASE UNCHANGED vars
  BY <1>8, NothingMoves DEF vars, breaker
<1>. QED BY <1>1, <1>2, <1>3, <1>4, <1>5, <1>6, <1>7, <1>8 DEF Next

LEMMA InvariantHolds == Spec => []IInv
<1>. QED BY InitInvariant, NextInvariant, PTL DEF Spec

(* A request holds a permit from its admission until its response has left *)
(* and a call of the breaker while that runs the method, however it ends.  *)
THEOREM ResourcesFollowRequestsHolds == Spec => []ResourcesFollowRequests
<1>1. IInv => ResourcesFollowRequests
  BY DEF IInv, Follow, ResourcesFollowRequests, Breaker!Idle
<1>. QED BY <1>1, InvariantHolds, PTL

(* The bulkhead bounds the running methods, those of the fallback, too.    *)
THEOREM RunsFitBulkheadHolds == Spec => []RunsFitBulkhead
<1>1. IInv => RunsFitBulkhead
  <2> SUFFICES ASSUME IInv PROVE RunsFitBulkhead
    OBVIOUS
  <2>1. Bulkhead!In("waiting") = {} /\ Bulkhead!In("granted") = {} /\ Bulkhead!In("running") = Held
    BY DEF IInv, Types, Bulkhead!In, Held
  <2>2. /\ Bulkhead!Cardinality(Bulkhead!In("waiting")) = 0
        /\ Bulkhead!Cardinality(Bulkhead!In("granted")) = 0
        /\ Bulkhead!Cardinality(Bulkhead!In("running")) = Cardinality(Held)
    BY <2>1, FS_EmptySet, SameCardinality
  <2>3. Bulkhead!SlotsAddUp /\ Bulkhead!PlaceholdersAddUp
    BY <2>2, HeldFinite DEF IInv, Counts, Bulkhead!SlotsAddUp, Bulkhead!PlaceholdersAddUp
  <2>4. {r \in Requests : stage[r] \in {"guarded", "rerun"}} \subseteq Held
    BY DEF IInv, Follow, Held
  <2>5. Cardinality({r \in Requests : stage[r] \in {"guarded", "rerun"}}) <= active
    BY <2>4, HeldFinite, FS_Subset DEF IInv, Counts
  <2>. QED BY <2>3, <2>5 DEF RunsFitBulkhead
<1>. QED BY <1>1, InvariantHolds, PTL
-----------------------------------------------------------------------------
(* The parts: what happens to the variables of each is a behaviour of it.  *)
(* Its theorems are those of its own module of proofs, the definitions of  *)
(* which are those of the part.                                            *)

BreakerP == INSTANCE CircuitBreakerProofs WITH Calls <- Requests, Cancellable <- Requests
BulkheadP == INSTANCE BulkheadProofs WITH Callers <- Requests, Cancels <- TRUE, pc <- permit
LimiterP == INSTANCE RateLimiterProofs

LEMMA SameLimiter ==
  /\ Limiter!Configured <=> LimiterP!Configured
  /\ Limiter!Init <=> LimiterP!Init
  /\ Limiter!Acquire <=> LimiterP!Acquire
  /\ Limiter!Tick <=> LimiterP!Tick
  /\ Limiter!TypeOK <=> LimiterP!TypeOK
  /\ Limiter!AdmissionsAreBounded <=> LimiterP!AdmissionsAreBounded
<1> USE DEF Limiter!Rate, LimiterP!Rate, Limiter!Burst, LimiterP!Burst, Limiter!Least, LimiterP!Least,
            Limiter!Algorithms, LimiterP!Algorithms
<1>1. Limiter!Configured <=> LimiterP!Configured
  BY DEF Limiter!Configured, LimiterP!Configured
<1>2. Limiter!Init <=> LimiterP!Init
  BY DEF Limiter!Init, LimiterP!Init
<1>3. \A ages : Limiter!Within(ages) = LimiterP!Within(ages)
  BY DEF Limiter!Within, LimiterP!Within, Limiter!Outdated, LimiterP!Outdated
<1>4. Limiter!Refilled = LimiterP!Refilled /\ Limiter!Rotated = LimiterP!Rotated
  BY DEF Limiter!Refilled, LimiterP!Refilled, Limiter!Rotated, LimiterP!Rotated
<1>5. Limiter!Admits <=> LimiterP!Admits
  BY <1>3, <1>4 DEF Limiter!Admits, LimiterP!Admits
<1>6. Limiter!Acquire <=> LimiterP!Acquire
  <2>1. Limiter!TokenBucket <=> LimiterP!TokenBucket
    BY <1>4, <1>5 DEF Limiter!TokenBucket, LimiterP!TokenBucket
  <2>2. Limiter!SlidingWindow <=> LimiterP!SlidingWindow
    BY <1>3, <1>5 DEF Limiter!SlidingWindow, LimiterP!SlidingWindow
  <2>3. Limiter!FixedWindow <=> LimiterP!FixedWindow
    BY <1>4, <1>5 DEF Limiter!FixedWindow, LimiterP!FixedWindow
  <2>4. Limiter!Unchecked <=> LimiterP!Unchecked
    BY DEF Limiter!Unchecked, LimiterP!Unchecked
  <2>. QED BY <1>5, <2>1, <2>2, <2>3, <2>4 DEF Limiter!Acquire, LimiterP!Acquire
<1>7. Limiter!Tick <=> LimiterP!Tick
  BY <1>3 DEF Limiter!Tick, LimiterP!Tick
<1>8. Limiter!TypeOK <=> LimiterP!TypeOK
  BY DEF Limiter!TypeOK, LimiterP!TypeOK
<1>9. Limiter!AdmissionsAreBounded <=> LimiterP!AdmissionsAreBounded
  BY DEF Limiter!AdmissionsAreBounded, LimiterP!AdmissionsAreBounded
<1>. QED BY <1>1, <1>2, <1>6, <1>7, <1>8, <1>9

LEMMA SameBulkhead ==
  /\ Bulkhead!Init <=> BulkheadP!Init
  /\ \A r \in Requests : /\ Bulkhead!TryAcquire(r) <=> BulkheadP!TryAcquire(r)
                         /\ Bulkhead!Finish(r) <=> BulkheadP!Finish(r)
  /\ Bulkhead!TypeOK <=> BulkheadP!TypeOK
<1> USE DEF Bulkhead!AtLeast, BulkheadP!AtLeast, Bulkhead!MaxConcurrent, BulkheadP!MaxConcurrent,
            Bulkhead!QueueDepth, BulkheadP!QueueDepth, Bulkhead!Outside, BulkheadP!Outside,
            Bulkhead!Places, BulkheadP!Places
<1>1. Bulkhead!Init <=> BulkheadP!Init
  BY DEF Bulkhead!Init, BulkheadP!Init
<1>2. \A place : Bulkhead!In(place) = BulkheadP!In(place)
  BY DEF Bulkhead!In, BulkheadP!In
<1>3. \A S : Bulkhead!Cardinality(S) = BulkheadP!Cardinality(S)
  BY DEF Bulkhead!Cardinality, BulkheadP!Cardinality
<1>4. \A n, P : Bulkhead!Woken(n, P) = BulkheadP!Woken(n, P)
  <2>. TAKE n, P
  <2>1. \A c, d : Bulkhead!Before(d, c) <=> BulkheadP!Before(d, c)
    BY DEF Bulkhead!Before, BulkheadP!Before
  <2>2. \A c : {d \in P : Bulkhead!Before(d, c)} = {d \in P : BulkheadP!Before(d, c)}
    BY <2>1
  <2>. QED BY <1>3, <2>2 DEF Bulkhead!Woken, BulkheadP!Woken
<1>5. ASSUME NEW r \in Requests PROVE Bulkhead!TryAcquire(r) <=> BulkheadP!TryAcquire(r)
  BY DEF Bulkhead!TryAcquire, BulkheadP!TryAcquire, Bulkhead!Locked, BulkheadP!Locked,
         Bulkhead!QueueFull, BulkheadP!QueueFull, Bulkhead!Goto, BulkheadP!Goto, Bulkhead!Put, BulkheadP!Put
<1>6. ASSUME NEW r \in Requests PROVE Bulkhead!Finish(r) <=> BulkheadP!Finish(r)
  BY <1>2, <1>3, <1>4 DEF Bulkhead!Finish, BulkheadP!Finish, Bulkhead!Release, BulkheadP!Release
<1>7. Bulkhead!TypeOK <=> BulkheadP!TypeOK
  BY <1>2 DEF Bulkhead!TypeOK, BulkheadP!TypeOK
<1>. QED BY <1>1, <1>5, <1>6, <1>7

LEMMA SameBreaker ==
  /\ Breaker!Init <=> BreakerP!Init
  /\ \A r \in Requests : /\ Breaker!BeforeCall(r) <=> BreakerP!BeforeCall(r)
                         /\ Breaker!Success(r) <=> BreakerP!Success(r)
                         /\ Breaker!Failure(r) <=> BreakerP!Failure(r)
                         /\ Breaker!Ignored(r) <=> BreakerP!Ignored(r)
                         /\ Breaker!Cancelled(r) <=> BreakerP!Cancelled(r)
  /\ Breaker!Tick <=> BreakerP!Tick
  /\ Breaker!TypeOK <=> BreakerP!TypeOK
<1> USE DEF Breaker!AtLeast, BreakerP!AtLeast, Breaker!FailureThreshold, BreakerP!FailureThreshold,
            Breaker!SuccessThreshold, BreakerP!SuccessThreshold, Breaker!Timeout, BreakerP!Timeout,
            Breaker!HalfOpenMaxCalls, BreakerP!HalfOpenMaxCalls, Breaker!States, BreakerP!States,
            Breaker!None, BreakerP!None, Breaker!Idle, BreakerP!Idle,
            Breaker!counters, BreakerP!counters, Breaker!history, BreakerP!history
<1>1. Breaker!Init <=> BreakerP!Init
  BY DEF Breaker!Init, BreakerP!Init
<1>2. Breaker!HalfOpenCalls = BreakerP!HalfOpenCalls
  BY DEF Breaker!HalfOpenCalls, BreakerP!HalfOpenCalls
<1>3. \A S : Breaker!Cardinality(S) = BreakerP!Cardinality(S)
  BY DEF Breaker!Cardinality, BreakerP!Cardinality
<1>4. \A r : /\ Breaker!Return(r) <=> BreakerP!Return(r)
             /\ Breaker!Finish(r) <=> BreakerP!Finish(r)
             /\ Breaker!ReleaseSlot(r) <=> BreakerP!ReleaseSlot(r)
  BY DEF Breaker!Return, BreakerP!Return, Breaker!Finish, BreakerP!Finish,
         Breaker!ReleaseSlot, BreakerP!ReleaseSlot, Breaker!SlotsAfterRelease, BreakerP!SlotsAfterRelease
<1>5. /\ Breaker!EnterOpen <=> BreakerP!EnterOpen
      /\ Breaker!EnterClosed <=> BreakerP!EnterClosed
  BY DEF Breaker!EnterOpen, BreakerP!EnterOpen,
         Breaker!EnterClosed, BreakerP!EnterClosed, Breaker!PeriodOver, BreakerP!PeriodOver
<1>6. ASSUME NEW r \in Requests PROVE Breaker!BeforeCall(r) <=> BreakerP!BeforeCall(r)
  BY <1>2, <1>3 DEF Breaker!BeforeCall, BreakerP!BeforeCall,
         Breaker!AdmitWhileClosed, BreakerP!AdmitWhileClosed, Breaker!AdmitProbe, BreakerP!AdmitProbe,
         Breaker!AdmitFirstProbe, BreakerP!AdmitFirstProbe, Breaker!SlotFree, BreakerP!SlotFree,
         Breaker!OpenTimeoutElapsed, BreakerP!OpenTimeoutElapsed
<1>7. ASSUME NEW r \in Requests PROVE Breaker!LateResult(r) <=> BreakerP!LateResult(r)
  BY <1>4 DEF Breaker!LateResult, BreakerP!LateResult
<1>8. ASSUME NEW r \in Requests PROVE Breaker!Success(r) <=> BreakerP!Success(r)
  BY <1>4, <1>5, <1>7 DEF Breaker!Success, BreakerP!Success, Breaker!ProbeSucceeds, BreakerP!ProbeSucceeds,
         Breaker!SuccessWhileClosed, BreakerP!SuccessWhileClosed,
         Breaker!SlotsAfterRelease, BreakerP!SlotsAfterRelease
<1>9. ASSUME NEW r \in Requests PROVE Breaker!Failure(r) <=> BreakerP!Failure(r)
  BY <1>4, <1>5, <1>7 DEF Breaker!Failure, BreakerP!Failure, Breaker!ProbeFails, BreakerP!ProbeFails,
         Breaker!FailureWhileClosed, BreakerP!FailureWhileClosed,
         Breaker!EnoughFailures, BreakerP!EnoughFailures
<1>10. ASSUME NEW r \in Requests PROVE Breaker!Ignored(r) <=> BreakerP!Ignored(r)
  BY <1>4 DEF Breaker!Ignored, BreakerP!Ignored
<1>11. ASSUME NEW r \in Requests PROVE Breaker!Cancelled(r) <=> BreakerP!Cancelled(r)
  BY <1>4 DEF Breaker!Cancelled, BreakerP!Cancelled
<1>12. Breaker!Tick <=> BreakerP!Tick
  BY DEF Breaker!Tick, BreakerP!Tick
<1>13. Breaker!TypeOK <=> BreakerP!TypeOK
  BY <1>2 DEF Breaker!TypeOK, BreakerP!TypeOK
<1>. QED BY <1>1, <1>6, <1>8, <1>9, <1>10, <1>11, <1>12, <1>13

LEMMA PartsBegin == Init => BreakerP!Init /\ BulkheadP!Init /\ LimiterP!Init
BY SameLimiter, SameBulkhead, SameBreaker DEF Init

(* A step of a request is one of each part, or leaves the part alone.      *)
LEMMA PartsStep ==
  ASSUME [Next]_vars
  PROVE  /\ [BreakerP!Next]_(BreakerP!vars)
         /\ [BulkheadP!Next]_(BulkheadP!vars)
         /\ [LimiterP!Next]_(LimiterP!limiter)
<1> USE DEF bulkhead, breaker, limiter, LimiterP!limiter, BulkheadP!vars,
            BreakerP!vars, BreakerP!counters, BreakerP!history
<1>1. ASSUME NEW r \in Requests,
             \/ Limited(r) \/ Refused(r) \/ Admitted(r) \/ Rejected(r)
             \/ MethodReturns(r) \/ MethodRaises(r) \/ RerunReturns(r) \/ RerunRaises(r)
             \/ Cancelled(r) \/ Finalized(r)
      PROVE  /\ \/ UNCHANGED limiter
                \/ Limiter!Acquire
             /\ \/ UNCHANGED bulkhead
                \/ Bulkhead!TryAcquire(r) \/ Bulkhead!Finish(r)
             /\ \/ UNCHANGED breaker
                \/ Breaker!BeforeCall(r) \/ Breaker!Success(r) \/ Breaker!Failure(r)
                \/ Breaker!Ignored(r) \/ Breaker!Cancelled(r)
  <2>1. \/ UNCHANGED limiter
        \/ Limiter!Acquire
    BY <1>1 DEF Limited, Refused, Admitted, Rejected, Passes, MethodReturns, MethodRaises,
                RerunReturns, RerunRaises, Cancelled, Finalized
  <2>2. \/ UNCHANGED bulkhead
        \/ Bulkhead!TryAcquire(r) \/ Bulkhead!Finish(r)
    BY <1>1 DEF Limited, Refused, Admitted, Rejected, Passes, MethodReturns, MethodRaises,
                RerunReturns, RerunRaises, Cancelled, Finalized, Respond, Unwind
  <2>3. \/ UNCHANGED breaker
        \/ Breaker!BeforeCall(r) \/ Breaker!Success(r) \/ Breaker!Failure(r)
        \/ Breaker!Ignored(r) \/ Breaker!Cancelled(r)
    BY <1>1 DEF Limited, Refused, Admitted, Rejected, MethodReturns, MethodRaises,
                RerunReturns, RerunRaises, Cancelled, Finalized
  <2>. QED BY <2>1, <2>2, <2>3
<1>2. CASE \E r \in Requests :
             \/ Limited(r) \/ Refused(r) \/ Admitted(r) \/ Rejected(r)
             \/ MethodReturns(r) \/ MethodRaises(r) \/ RerunReturns(r) \/ RerunRaises(r)
             \/ Cancelled(r) \/ Finalized(r)
  <2>1. PICK r \in Requests :
             \/ Limited(r) \/ Refused(r) \/ Admitted(r) \/ Rejected(r)
             \/ MethodReturns(r) \/ MethodRaises(r) \/ RerunReturns(r) \/ RerunRaises(r)
             \/ Cancelled(r) \/ Finalized(r)
    BY <1>2
  <2>2. [LimiterP!Next]_(LimiterP!limiter)
    BY <1>1, <2>1, SameLimiter DEF LimiterP!Next
  <2>3. [BulkheadP!Next]_(BulkheadP!vars)
    BY <1>1, <2>1, SameBulkhead DEF BulkheadP!Next
  <2>4. [BreakerP!Next]_(BreakerP!vars)
    BY <1>1, <2>1, SameBreaker DEF BreakerP!Next
  <2>. QED BY <2>2, <2>3, <2>4
<1>3. CASE Tick
  BY <1>3, SameLimiter, SameBreaker DEF Tick, LimiterP!Next, BreakerP!Next
<1>4. CASE UNCHANGED vars
  BY <1>4 DEF vars
<1>. QED BY <1>2, <1>3, <1>4 DEF Next

(* Composed, each of limiter, bulkhead and breaker still does only what it *)
(* does by itself; so what is proved of it holds of the composition.       *)
THEOREM PartsImplemented ==
  Spec => BreakerP!Spec /\ BulkheadP!Spec /\ LimiterP!Spec
BY PartsBegin, PartsStep, PTL DEF Spec, BreakerP!Spec, BulkheadP!Spec, LimiterP!Spec

LEMMA PartsInvariants ==
  Spec => [](Breaker!TypeOK /\ Bulkhead!TypeOK /\ Limiter!TypeOK /\ Limiter!AdmissionsAreBounded)
<1>1. BreakerP!Spec => []BreakerP!TypeOK
  BY ResilienceAssumption, BreakerP!TypeCorrect
     DEF BreakerP!Cardinality, BreakerP!IsFiniteSet, IsFiniteSet, Cardinality
<1>2. BulkheadP!Spec => []BulkheadP!TypeOK
  BY ResilienceAssumption, BulkheadP!TypeCorrect
     DEF BulkheadP!Cardinality, BulkheadP!IsFiniteSet, IsFiniteSet, Cardinality
<1>3. LimiterP!Spec => [](LimiterP!TypeOK /\ LimiterP!AdmissionsAreBounded)
  BY ResilienceAssumption, SameLimiter, LimiterP!AdmissionsAreBoundedHolds
<1>. QED BY <1>1, <1>2, <1>3, PartsImplemented, SameBreaker, SameBulkhead, SameLimiter, PTL

(* Types of the composition: nobody waits for a permit, and the counters   *)
(* of the parts stay within their ranges.                                  *)
THEOREM TypeOKHolds == Spec => []TypeOK
<1> DEFINE Own == fallback \in BOOLEAN /\ runs \in [Requests -> Nat]
<1>1. Init => Own
  BY DEF Init
<1>2. Own /\ [Next]_vars => Own'
  BY DEF Next, vars, Limited, Refused, Admitted, Rejected, Passes, MethodReturns, MethodRaises,
         RerunReturns, RerunRaises, Cancelled, Finalized, Tick, Start, Respond, Unwind, Goto
<1>3. Spec => []Own
  BY <1>1, <1>2, PTL DEF Spec
<1>4. IInv /\ Own /\ Breaker!TypeOK /\ Bulkhead!TypeOK /\ Limiter!TypeOK => TypeOK
  BY DEF IInv, Types, Stages, TypeOK
<1>. QED BY <1>3, <1>4, InvariantHolds, PartsInvariants, PTL

(* The limiter bounds what reaches the bulkhead within a second, however   *)
(* bulkhead and breaker then answer.                                       *)
THEOREM ArrivalsAreBoundedHolds == Spec => []ArrivalsAreBounded
<1>1. Limiter!AdmissionsAreBounded => ArrivalsAreBounded
  BY DEF ArrivalsAreBounded
<1>. QED BY <1>1, PartsInvariants, PTL
=============================================================================
