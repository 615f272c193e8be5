------------------------------ MODULE QosProofs ------------------------------
(***************************************************************************)
(* Qos for any finite set of requests and any keys, attempts, interceptors *)
(* and lifetimes: its types, its safety properties and its implementation  *)
(* of Idempotency.  Each part rests on the parts before it.                *)
(*                                                                         *)
(* IInv, with SingleFlight.  A request comes past a lock in two ways:      *)
(* Descend passes the locks that are not taken, and LockAcquired waits     *)
(* until nobody holds the lock.  Nothing else adds a holder, so it is      *)
(* inductive once it is known that depth names an interceptor.             *)
(*                                                                         *)
(* DataTypes.  A cache stays a list without two entries of one key and     *)
(* within its size: what Get and Set do to such a list is said by          *)
(* GetKeeps and SetRemembers, in terms of the set of its entries.          *)
(*                                                                         *)
(* NotRemembered.  Who holds the lock of a key finds no answer to it: it   *)
(* looked after it had got the lock, and only a holder sets one.  So the   *)
(* method does not run for a key that is remembered.                       *)
(*                                                                         *)
(* AnswersKnown.  An entry of cache i expires at most Kept[i] after its    *)
(* run ended, because what sets it there was live in a cache further in,   *)
(* where at most Kept[i + 1] had passed.  So answers are fresh.            *)
(***************************************************************************)
EXTENDS Qos, TLAPS, WellFoundedInduction, FiniteSetTheorems, SequenceTheorems

Types ==
  /\ pc \in [Requests -> Active \cup {"idle", "done", "failed", "gone"}]
  /\ depth \in [Requests -> Layers]
  /\ key \in [Requests -> Keys \cup {NoKey}]

IInv == Types /\ SingleFlight

(* A set of interceptors that is not empty has an outermost one: the       *)
(* choice in Descend is of an interceptor.                                 *)
LEMMA OutermostExists ==
  ASSUME NEW S, S \subseteq Nat, S # {}
  PROVE  \E j \in S : \A l \in S : j <= l
<1>1. OpToRel(<, Nat) = {pair \in Nat \X Nat : pair[1] < pair[2]}
  BY DEF OpToRel
<1>2. PICK j \in S : \A l \in S : ~(<<l, j>> \in OpToRel(<, Nat))
  BY WFMin, NatLessThanWellFounded
<1>3. ASSUME NEW l \in S PROVE j <= l
  <2>1. ~(l < j)
    BY <1>1, <1>2
  <2>2. j \in Nat /\ l \in Nat
    OBVIOUS
  <2>. QED BY <2>1, <2>2
<1>. QED BY <1>3

(* ... and an innermost one: the choice in Fail is of one, too.            *)
LEMMA InnermostExists ==
  ASSUME NEW n \in Nat, NEW S, S \subseteq 1..n, S # {}
  PROVE  \E j \in S : \A l \in S : l <= j
<1> DEFINE T == {n - j : j \in S}
<1>1. T \subseteq Nat
  OBVIOUS
<1>0. T # {}
  <2>1. PICK j \in S : TRUE
    OBVIOUS
  <2>2. n - j \in T
    BY <2>1
  <2>. QED BY <2>2
<1>2. PICK t \in T : \A u \in T : t <= u
  BY <1>0, <1>1, OutermostExists
<1>3. PICK j \in S : t = n - j
  OBVIOUS
<1>4. \A l \in S : n - l \in T
  OBVIOUS
<1>5. ASSUME NEW l \in S PROVE l <= j
  <2>1. n - j <= n - l
    BY <1>2, <1>3, <1>4
  <2>. HIDE DEF T
  <2>. QED BY <2>1
<1>. QED BY <1>5

(* What Descend does to the request: it stops inside every interceptor it  *)
(* has passed, each of which was its own (mine) or had a free lock.        *)
LEMMA DescendPasses ==
  ASSUME NEW r \in Requests, NEW k \in Keys \cup {NoKey}, NEW i \in 1..Interceptors + 1,
         NEW mine, NEW waiters, Types, Descend(r, k, i, mine, waiters)
  PROVE  /\ \/ pc' = [pc EXCEPT ![r] = "done"] /\ UNCHANGED depth
            \/ pc' = [pc EXCEPT ![r] = "executing"] /\ UNCHANGED depth
            \/ \E last \in i..Interceptors :
                 /\ pc' = [pc EXCEPT ![r] = "waiting"]
                 /\ depth' = [depth EXCEPT ![r] = last]
         /\ pc'[r] \in {"executing", "waiting"} =>
              \A j \in i..Interceptors :
                pc'[r] = "executing" \/ j < depth'[r] => j = mine \/ ~Busy(j, k)
<1> DEFINE stops == {j \in i..Interceptors : Live(cache[j], k) \/ (j # mine /\ Busy(j, k))}
           last == IF stops = {} THEN Interceptors
                   ELSE CHOOSE j \in stops : \A l \in stops : j <= l
<1>1. stops \subseteq i..Interceptors /\ stops \subseteq Nat
  BY QosAssumption DEF QosAssumption
<1>2. stops # {} => last \in stops /\ \A l \in stops : last <= l
  <2>. SUFFICES ASSUME stops # {} PROVE last \in stops /\ \A l \in stops : last <= l
    OBVIOUS
  <2>1. \E j \in stops : \A l \in stops : j <= l
    BY <1>1, OutermostExists
  <2>. QED BY <2>1
<1>3. CASE stops = {} /\ pc' = [pc EXCEPT ![r] = "executing"] /\ UNCHANGED depth
  <2>1. \A j \in i..Interceptors : j = mine \/ ~Busy(j, k)
    BY <1>3
  <2>2. pc'[r] = "executing"
    BY <1>3 DEF Types
  <2>. QED BY <1>3, <2>1
<1>4. CASE pc' = [pc EXCEPT ![r] = "done"] /\ UNCHANGED depth
  <2>1. pc'[r] = "done"
    BY <1>4 DEF Types
  <2>. QED BY <1>4, <2>1
<1>5. CASE stops # {} /\ pc' = [pc EXCEPT ![r] = "waiting"] /\ depth' = [depth EXCEPT ![r] = last]
  <2>1. last \in i..Interceptors
    BY <1>1, <1>2, <1>5
  <2>2. depth'[r] = last /\ pc'[r] = "waiting"
    BY <1>5 DEF Types
  <2>3. ASSUME NEW j \in i..Interceptors, j < last, j \in stops PROVE FALSE
    <3>1. last <= j
      BY <1>2, <1>5, <2>3
    <3>2. j \in Nat /\ last \in Nat
      BY <2>1, QosAssumption DEF QosAssumption
    <3>. HIDE DEF last, stops
    <3>. QED BY <2>3, <3>1, <3>2
  <2>4. \A j \in i..Interceptors : j < last => j = mine \/ ~Busy(j, k)
    BY <2>3
  <2>. HIDE DEF last, stops
  <2>. QED BY <1>5, <2>1, <2>2, <2>4
<1>6. \/ stops = {} /\ pc' = [pc EXCEPT ![r] = "executing"] /\ UNCHANGED depth
      \/ pc' = [pc EXCEPT ![r] = "done"] /\ UNCHANGED depth
      \/ stops # {} /\ pc' = [pc EXCEPT ![r] = "waiting"] /\ depth' = [depth EXCEPT ![r] = last]
  BY DEF Descend, Answered
<1>. QED BY <1>3, <1>4, <1>5, <1>6

(* A step that lets no other request past a lock keeps SingleFlight, if it *)
(* lets r past such locks only as nobody else holds.                       *)
LEMMA OneComesIn ==
  ASSUME NEW r \in Requests, IInv, Types',
         \A q \in Requests \ {r} : pc'[q] = pc[q] /\ depth'[q] = depth[q] /\ key'[q] = key[q],
         \A i \in Layers, k \in Keys :
           HoldsLock(r, i, k)' => HoldsLock(r, i, k) \/ \A q \in Requests \ {r} : ~HoldsLock(q, i, k)
  PROVE  IInv'
<1>1. \A q \in Requests \ {r}, i \in Layers, k \in Keys : HoldsLock(q, i, k)' <=> HoldsLock(q, i, k)
  BY DEF HoldsLock, Inside
<1>2. SingleFlight'
  <2>. SUFFICES ASSUME NEW i \in Layers', NEW k \in Keys, NEW p \in Requests, NEW q \in Requests,
                       HoldsLock(p, i, k)', HoldsLock(q, i, k)'
                PROVE  p = q
    BY DEF SingleFlight
  <2>0. i \in Layers
    BY DEF Layers
  <2>1. CASE p # r /\ q # r
    BY <1>1, <2>0, <2>1 DEF IInv, SingleFlight
  <2>2. CASE p = r /\ q # r
    <3>1. HoldsLock(q, i, k)
      BY <1>1, <2>0, <2>2
    <3>2. HoldsLock(r, i, k)
      BY <3>1, <2>0, <2>2
    <3>. QED BY <3>1, <3>2, <2>0, <2>2 DEF IInv, SingleFlight
  <2>3. CASE p # r /\ q = r
    <3>1. HoldsLock(p, i, k)
      BY <1>1, <2>0, <2>3
    <3>2. HoldsLock(r, i, k)
      BY <3>1, <2>0, <2>3
    <3>. QED BY <3>1, <3>2, <2>0, <2>3 DEF IInv, SingleFlight
  <2>. QED BY <2>1, <2>2, <2>3
<1>. QED BY <1>2 DEF IInv

(* Descending from an interceptor whose outer ones r is inside of already. *)
LEMMA DescendInvariant ==
  ASSUME NEW r \in Requests, NEW k \in Keys \cup {NoKey}, NEW i \in 1..Interceptors + 1,
         NEW mine, NEW waiters, IInv, Descend(r, k, i, mine, waiters),
         key' = [key EXCEPT ![r] = k],
         \A j \in Layers : j < i => key[r] = k /\ Inside(r, j),
         mine \in Layers => \A q \in Requests : ~HoldsLock(q, mine, k)
  PROVE  IInv'
<1>1. Types'
  <2>1. i..Interceptors \subseteq Layers
    BY QosAssumption DEF QosAssumption, Layers
  <2>2. key' \in [Requests -> Keys \cup {NoKey}]
    BY DEF IInv, Types
  <2>3. CASE pc' \in {[pc EXCEPT ![r] = "done"], [pc EXCEPT ![r] = "executing"]} /\ UNCHANGED depth
    BY <2>2, <2>3 DEF IInv, Types, Active, Layers
  <2>4. CASE \E last \in i..Interceptors : /\ pc' = [pc EXCEPT ![r] = "waiting"]
                                          /\ depth' = [depth EXCEPT ![r] = last]
    BY <2>1, <2>2, <2>4 DEF IInv, Types, Active, Layers
  <2>. QED BY <2>3, <2>4, DescendPasses DEF IInv
<1>2. \A q \in Requests \ {r} : pc'[q] = pc[q] /\ depth'[q] = depth[q] /\ key'[q] = key[q]
  BY DescendPasses DEF IInv, Types
<1>3. ASSUME NEW j \in Layers, NEW l \in Keys, HoldsLock(r, j, l)', ~HoldsLock(r, j, l)
      PROVE  \A q \in Requests \ {r} : ~HoldsLock(q, j, l)
  <2>1. l = k
    BY <1>3 DEF HoldsLock, IInv, Types
  <2>2. pc'[r] \in {"executing", "waiting"} /\ (pc'[r] = "executing" \/ j < depth'[r])
    <3>1. pc'[r] \in {"executing", "waiting", "done"}
      BY DescendPasses DEF IInv, Types
    <3>. QED BY <3>1, <1>3 DEF HoldsLock, Inside
  <2>3. j \in i..Interceptors
    BY <1>3, <2>1, QosAssumption DEF HoldsLock, Layers, QosAssumption
  <2>4. j = mine \/ ~Busy(j, k)
    BY <2>2, <2>3, DescendPasses DEF IInv
  <2>. QED BY <2>1, <2>4, <1>3 DEF Busy
<1>. QED BY <1>1, <1>2, <1>3, OneComesIn

(* A step after which r is inside no more interceptors than before.        *)
LEMMA OneGoesOut ==
  ASSUME NEW r \in Requests, IInv, Types', UNCHANGED key,
         \A q \in Requests \ {r} : pc'[q] = pc[q] /\ depth'[q] = depth[q],
         \A i \in Layers : Inside(r, i)' => Inside(r, i)
  PROVE  IInv'
<1>1. \A i \in Layers, k \in Keys : HoldsLock(r, i, k)' => HoldsLock(r, i, k)
  BY DEF HoldsLock
<1>. QED BY <1>1, OneComesIn

(* No request has arrived yet.                                             *)
LEMMA InitInvariant == Init => IInv
BY QosAssumption DEF QosAssumption, Init, IInv, Types, SingleFlight, HoldsLock, Inside, Layers, Active

(* A request that arrives is inside nothing.                               *)
LEMMA ArriveInvariant == ASSUME NEW r \in Requests, IInv, Arrive(r) PROVE IInv'
<1>1. PICK k \in Keys \cup {NoKey} :
        key' = [key EXCEPT ![r] = k] /\ Descend(r, k, 1, 0, queue)
  BY DEF Arrive
<1>2. 1 \in 1..Interceptors + 1 /\ 0 \notin Layers /\ \A j \in Layers : ~(j < 1)
  BY QosAssumption DEF QosAssumption, Layers
<1>. QED BY <1>1, <1>2, DescendInvariant

(* One that is given a lock is inside those further out, and nobody holds  *)
(* the one it is given.                                                    *)
LEMMA LockAcquiredInvariant == ASSUME NEW r \in Requests, IInv, LockAcquired(r) PROVE IInv'
<1>1. depth[r] \in Layers /\ key[r] \in Keys \cup {NoKey}
  BY DEF IInv, Types
<1>2. depth[r] \in 1..Interceptors + 1
  BY <1>1, QosAssumption DEF QosAssumption, Layers
<1>3. Descend(r, key[r], depth[r], depth[r], Unqueued(r)) /\ pc[r] = "waiting"
  BY DEF LockAcquired
<1>4. key' = [key EXCEPT ![r] = key[r]]
  BY DEF LockAcquired, IInv, Types
<1>5. \A j \in Layers : j < depth[r] => Inside(r, j)
  BY <1>3 DEF Inside
<1>6. \A q \in Requests : ~HoldsLock(q, depth[r], key[r])
  BY DEF LockAcquired
<1>. QED BY <1>1, <1>2, <1>3, <1>4, <1>5, <1>6, DescendInvariant

(* One that has slept in an interceptor is inside it and those further out.*)
LEMMA RetryInvariant == ASSUME NEW r \in Requests, IInv, Retry(r) PROVE IInv'
<1>1. depth[r] \in Layers /\ key[r] \in Keys \cup {NoKey}
  BY DEF IInv, Types
<1>2. depth[r] + 1 \in 1..Interceptors + 1 /\ 0 \notin Layers
  BY <1>1, QosAssumption DEF QosAssumption, Layers
<1>3. Descend(r, key[r], depth[r] + 1, 0, queue) /\ pc[r] = "backoff"
  BY DEF Retry
<1>4. key' = [key EXCEPT ![r] = key[r]]
  BY DEF Retry, IInv, Types
<1>5. \A j \in Layers : j < depth[r] + 1 => Inside(r, j)
  BY <1>1, <1>3, QosAssumption DEF Inside, Layers, QosAssumption
<1>. QED BY <1>1, <1>2, <1>3, <1>4, <1>5, DescendInvariant

(* A request that is answered or given up is inside nothing.               *)
LEMMA Ending ==
  ASSUME NEW r \in Requests, NEW end \in {"done", "gone"}, IInv,
         pc' = [pc EXCEPT ![r] = end], UNCHANGED <<depth, key>>
  PROVE  IInv'
<1>1. Types' /\ pc'[r] = end
  BY DEF IInv, Types, Active, Layers
<1>2. \A q \in Requests \ {r} : pc'[q] = pc[q] /\ depth'[q] = depth[q]
  BY DEF IInv, Types
<1>3. \A j \in Layers : ~Inside(r, j)'
  BY <1>1 DEF Inside
<1>. QED BY <1>1, <1>2, <1>3, OneGoesOut

(* An attempt that fails is left, and those further in.                    *)
LEMMA FailLeaves ==
  ASSUME NEW r \in Requests, NEW i \in Layers, NEW error, Types, Fail(r, i, error),
         \/ pc[r] = "executing"
         \/ pc[r] \in {"waiting", "backoff"} /\ i < depth[r]
  PROVE  /\ Types' /\ UNCHANGED key
         /\ pc'[r] \in {"failed", "backoff"}
         /\ \A q \in Requests \ {r} : pc'[q] = pc[q] /\ depth'[q] = depth[q]
         /\ \A j \in Layers : Inside(r, j)' => Inside(r, j)
<1> DEFINE left == {j \in 1..i : error \in Retryable /\ attempt[r][j] < MaxAttempts}
<1>1. UNCHANGED key
  BY DEF Fail
<1>2. CASE left = {} /\ pc' = [pc EXCEPT ![r] = "failed"] /\ UNCHANGED depth
  <2>1. Types' /\ pc'[r] = "failed"
    BY <1>1, <1>2 DEF Types, Active, Layers
  <2>2. \A q \in Requests \ {r} : pc'[q] = pc[q] /\ depth'[q] = depth[q]
    BY <1>2 DEF Types
  <2>3. \A j \in Layers : ~Inside(r, j)'
    BY <2>1 DEF Inside
  <2>. QED BY <1>1, <2>1, <2>2, <2>3
<1>3. ASSUME NEW d \in 1..i, pc' = [pc EXCEPT ![r] = "backoff"], depth' = [depth EXCEPT ![r] = d]
      PROVE  /\ Types'
             /\ pc'[r] = "backoff"
             /\ \A q \in Requests \ {r} : pc'[q] = pc[q] /\ depth'[q] = depth[q]
             /\ \A j \in Layers : Inside(r, j)' => Inside(r, j)
  <2>0. i \in Nat /\ depth[r] \in Nat /\ d \in Nat /\ d <= i /\ d \in Layers
    BY QosAssumption DEF Types, Layers
  <2>1. Types' /\ pc'[r] = "backoff" /\ depth'[r] = d
    BY <1>1, <1>3, <2>0 DEF Types, Active, Layers
  <2>2. \A q \in Requests \ {r} : pc'[q] = pc[q] /\ depth'[q] = depth[q]
    BY <1>3 DEF Types
  <2>3. ASSUME NEW j \in Layers, Inside(r, j)' PROVE Inside(r, j)
    <3>1. j \in Nat /\ j <= d
      BY <2>1, <2>3, QosAssumption DEF Inside, Layers
    <3>. QED BY <3>1, <2>0 DEF Inside
  <2>. QED BY <2>1, <2>2, <2>3
<1>4. left # {} => (CHOOSE j \in left : \A l \in left : l <= j) \in 1..i
  <2>. SUFFICES ASSUME left # {} PROVE (CHOOSE j \in left : \A l \in left : l <= j) \in 1..i
    OBVIOUS
  <2>0. i \in Nat /\ left \subseteq 1..i
    BY QosAssumption DEF Layers
  <2>1. \E j \in left : \A l \in left : l <= j
    <3>. HIDE DEF left
    <3>. QED BY <2>0, InnermostExists
  <2>. QED BY <2>1
<1>. QED BY <1>1, <1>2, <1>3, <1>4 DEF Fail

LEMMA FailInvariant ==
  ASSUME NEW r \in Requests, NEW i \in Layers, NEW error, IInv, Fail(r, i, error),
         \/ pc[r] = "executing"
         \/ pc[r] \in {"waiting", "backoff"} /\ i < depth[r]
  PROVE  IInv'
BY FailLeaves, OneGoesOut DEF IInv

(* Every step keeps the invariant.                                         *)
LEMMA NextInvariant == IInv /\ [Next]_vars => IInv'
<1> SUFFICES ASSUME IInv, [Next]_vars PROVE IInv'
  OBVIOUS
<1>1. ASSUME NEW r \in Requests, Arrive(r) PROVE IInv'
  BY <1>1, ArriveInvariant
<1>2. ASSUME NEW r \in Requests, LockAcquired(r) PROVE IInv'
  BY <1>2, LockAcquiredInvariant
<1>3. ASSUME NEW r \in Requests, Respond(r) PROVE IInv'
  <2>1. pc' = [pc EXCEPT ![r] = "done"] /\ UNCHANGED <<depth, key>>
    BY <1>3 DEF Respond, Answered
  <2>. QED BY <2>1, Ending
<1>4. ASSUME NEW r \in Requests, Raise(r) PROVE IInv'
  <2>1. Interceptors \in Layers
    BY QosAssumption DEF QosAssumption, Layers
  <2>. QED BY <1>4, <2>1, FailInvariant DEF Raise
<1>5. ASSUME NEW r \in Requests, Retry(r) PROVE IInv'
  BY <1>5, RetryInvariant
<1>6. ASSUME NEW r \in Requests, Cancel(r) PROVE IInv'
  <2>1. pc' = [pc EXCEPT ![r] = "gone"] /\ UNCHANGED <<depth, key>>
    BY <1>6 DEF Cancel
  <2>. QED BY <2>1, Ending
<1>7. ASSUME NEW r \in Requests, NEW i \in Layers, Timeout(r, i) PROVE IInv'
  BY <1>7, FailInvariant DEF Timeout
<1>8. ASSUME UNCHANGED <<pc, depth, key>> PROVE IInv'
  BY <1>8 DEF IInv, Types, SingleFlight, HoldsLock, Inside, Layers
<1>. QED BY <1>1, <1>2, <1>3, <1>4, <1>5, <1>6, <1>7, <1>8 DEF Next, Tick, vars

(* Of the requests with one idempotency key at most one is past the lock   *)
(* of an interceptor (_get_or_compute).                                    *)
THEOREM SingleFlightHolds == Spec => []SingleFlight
<1>1. IInv => SingleFlight
  BY DEF IInv
<1>. QED BY <1>1, InitInvariant, NextInvariant, PTL DEF Spec
-----------------------------------------------------------------------------
(* The caches *)

Answer == [key : Keys, run : Nat, expires : Nat]
Entries(C) == {C[n] : n \in DOMAIN C}
Lru ==
  {C \in Seq(Answer) : /\ Len(C) <= MaxSize
                       /\ \A m, n \in DOMAIN C : C[m].key = C[n].key => m = n}

LEMMA FunctionIsSeq ==
  ASSUME NEW n \in Nat, NEW S, NEW f \in [1..n -> S]
  PROVE  f \in Seq(S) /\ Len(f) = n /\ DOMAIN f = 1..n
BY IsASeq, LenProperties

(* Without an element a sequence has the others.                           *)
LEMMA WithoutOne ==
  ASSUME NEW S, NEW s \in Seq(S), NEW n \in DOMAIN s
  PROVE  /\ Without(s, n) \in Seq(S)
         /\ Len(Without(s, n)) = Len(s) - 1
         /\ DOMAIN Without(s, n) = 1..Len(s) - 1
         /\ \A m \in 1..Len(s) - 1 : Without(s, n)[m] = IF m < n THEN s[m] ELSE s[m + 1]
<1>1. Len(s) \in Nat /\ DOMAIN s = 1..Len(s) /\ n \in 1..Len(s) /\ Len(s) - 1 \in Nat
  BY LenProperties
<1>2. \A m \in 1..Len(s) : s[m] \in S
  BY <1>1, ElementOfSeq
<1>3. \A m \in 1..Len(s) - 1 : (IF m < n THEN s[m] ELSE s[m + 1]) \in S
  BY <1>1, <1>2
<1>4. Without(s, n) \in [1..Len(s) - 1 -> S]
  BY <1>3 DEF Without
<1>5. \A m \in 1..Len(s) - 1 : Without(s, n)[m] = IF m < n THEN s[m] ELSE s[m + 1]
  BY DEF Without
<1>. HIDE DEF Without
<1>. QED BY <1>1, <1>4, <1>5, FunctionIsSeq

LEMMA LruShape ==
  ASSUME NEW C \in Lru
  PROVE  /\ C \in Seq(Answer) /\ Len(C) \in Nat /\ DOMAIN C = 1..Len(C) /\ Len(C) <= MaxSize
         /\ \A n \in DOMAIN C : C[n] \in Answer
         /\ \A m, n \in DOMAIN C : C[m].key = C[n].key => m = n
         /\ Entries(C) \subseteq Answer
<1>1. C \in Seq(Answer)
  BY DEF Lru
<1>2. \A n \in DOMAIN C : C[n] \in Answer
  BY <1>1, ElementOfSeq, LenProperties
<1>. QED BY <1>1, <1>2, LenProperties DEF Lru, Entries

(* A key has one entry, and Entry is it.                                   *)
LEMMA EntryIsThere ==
  ASSUME NEW C \in Lru, NEW k, NEW n \in DOMAIN C, C[n].key = k
  PROVE  At(C, k) = n /\ Entry(C, k) = C[n] /\ Entry(C, k) \in Entries(C)
<1>1. At(C, k) \in DOMAIN C /\ C[At(C, k)].key = k
  BY DEF At
<1>2. At(C, k) = n
  BY <1>1, LruShape
<1>. QED BY <1>2 DEF Entry, Entries

LEMMA LiveEntries ==
  ASSUME NEW C \in Lru, NEW k
  PROVE  /\ Live(C, k) <=> \E e \in Entries(C) : e.key = k /\ ~Expired(e)
         /\ Live(C, k) => /\ Entry(C, k) \in Entries(C) /\ Entry(C, k).key = k
                          /\ ~Expired(Entry(C, k)) /\ k \in Keys
         /\ \A e \in Entries(C) : e.key = k => e = Entry(C, k)
<1>1. Live(C, k) <=> \E e \in Entries(C) : e.key = k /\ ~Expired(e)
  BY DEF Live, Entries
<1>2. \A e \in Entries(C) : e.key = k => e = Entry(C, k)
  BY EntryIsThere DEF Entries
<1>3. Live(C, k) => /\ Entry(C, k) \in Entries(C) /\ Entry(C, k).key = k
                    /\ ~Expired(Entry(C, k)) /\ k \in Keys
  <2>. SUFFICES ASSUME Live(C, k)
                PROVE  /\ Entry(C, k) \in Entries(C) /\ Entry(C, k).key = k
                       /\ ~Expired(Entry(C, k)) /\ k \in Keys
    OBVIOUS
  <2>1. PICK e \in Entries(C) : e.key = k /\ ~Expired(e)
    BY <1>1
  <2>2. e = Entry(C, k)
    BY <1>2, <2>1
  <2>3. e \in Answer
    BY LruShape
  <2>. QED BY <2>1, <2>2, <2>3 DEF Answer
<1>. QED BY <1>1, <1>2, <1>3

LEMMA DropsKey ==
  ASSUME NEW C \in Lru, NEW k
  PROVE  /\ Drop(C, k) \in Lru
         /\ Entries(Drop(C, k)) = {e \in Entries(C) : e.key # k}
         /\ Len(Drop(C, k)) <= Len(C)
         /\ (\E n \in DOMAIN C : C[n].key = k) => Len(Drop(C, k)) = Len(C) - 1
<1>1. CASE \E n \in DOMAIN C : C[n].key = k
  <2> DEFINE D == Drop(C, k)
  <2>1. PICK n \in DOMAIN C : C[n].key = k
    BY <1>1
  <2>2. D = Without(C, n)
    BY <1>1, <2>1, EntryIsThere DEF Drop
  <2>. HIDE DEF D
  <2>3. /\ Len(C) \in Nat /\ C \in Seq(Answer) /\ DOMAIN C = 1..Len(C) /\ n \in 1..Len(C)
        /\ Len(C) <= MaxSize /\ MaxSize \in Nat
    BY <2>1, LruShape, QosAssumption
  <2>4. /\ D \in Seq(Answer) /\ Len(D) = Len(C) - 1
        /\ DOMAIN D = 1..Len(C) - 1
        /\ \A m \in 1..Len(C) - 1 : D[m] = IF m < n THEN C[m] ELSE C[m + 1]
    BY <2>2, <2>3, WithoutOne
  <2>5. Len(D) <= MaxSize /\ Len(D) <= Len(C)
    BY <2>3, <2>4
  <2> DEFINE from(m) == IF m < n THEN m ELSE m + 1
  <2>6. \A m \in DOMAIN D : from(m) \in DOMAIN C /\ D[m] = C[from(m)] /\ from(m) # n
    BY <2>3, <2>4
  <2>7. \A m, l \in DOMAIN D : from(m) = from(l) => m = l
    BY <2>3, <2>4
  <2>8. \A m \in DOMAIN C : m # n => \E l \in DOMAIN D : from(l) = m
    <3>. SUFFICES ASSUME NEW m \in DOMAIN C, m # n PROVE \E l \in DOMAIN D : from(l) = m
      OBVIOUS
    <3>1. CASE m < n
      BY <2>3, <2>4, <3>1
    <3>2. CASE ~(m < n)
      <4>1. m - 1 \in DOMAIN D /\ from(m - 1) = m
        BY <2>3, <2>4, <3>2
      <4>. QED BY <4>1
    <3>. QED BY <3>1, <3>2
  <2>. HIDE DEF from
  <2>9. \A m, l \in DOMAIN D : D[m].key = D[l].key => m = l
    BY <2>6, <2>7, LruShape
  <2>10. Entries(D) = {e \in Entries(C) : e.key # k}
    <3>1. ASSUME NEW m \in DOMAIN D PROVE D[m] \in Entries(C) /\ D[m].key # k
      BY <2>1, <2>6, LruShape DEF Entries
    <3>2. ASSUME NEW m \in DOMAIN C, C[m].key # k PROVE C[m] \in Entries(D)
      BY <2>1, <2>6, <2>8, <3>2 DEF Entries
    <3>. QED BY <3>1, <3>2 DEF Entries
  <2>11. D \in Lru
    BY <2>4, <2>5, <2>9 DEF Lru
  <2>. QED BY <2>4, <2>5, <2>10, <2>11 DEF D
<1>2. CASE ~\E n \in DOMAIN C : C[n].key = k
  <2>1. Drop(C, k) = C /\ Len(C) \in Nat
    BY <1>2, LruShape DEF Drop
  <2>2. \A e \in Entries(C) : e.key # k
    BY <1>2 DEF Entries
  <2>. QED BY <1>2, <2>1, <2>2
<1>. QED BY <1>1, <1>2

LEMMA Appending ==
  ASSUME NEW C \in Lru, NEW e \in Answer, Len(C) + 1 <= MaxSize, \A f \in Entries(C) : f.key # e.key
  PROVE  Append(C, e) \in Lru /\ Entries(Append(C, e)) = Entries(C) \cup {e}
<1> DEFINE D == Append(C, e)
<1>1. /\ C \in Seq(Answer) /\ Len(C) \in Nat /\ DOMAIN C = 1..Len(C)
      /\ \A m, n \in DOMAIN C : C[m].key = C[n].key => m = n
  BY LruShape
<1>2. /\ D \in Seq(Answer) /\ Len(D) = Len(C) + 1 /\ DOMAIN D = 1..Len(C) + 1
      /\ D[Len(C) + 1] = e /\ \A n \in 1..Len(C) : D[n] = C[n]
  BY <1>1, AppendProperties, LenProperties
<1>. HIDE DEF D
<1>3. \A n \in DOMAIN C : C[n].key # e.key
  BY DEF Entries
<1>4. \A n \in DOMAIN D : n = Len(C) + 1 \/ n \in DOMAIN C
  BY <1>1, <1>2
<1>5. \A m, n \in DOMAIN D : D[m].key = D[n].key => m = n
  BY <1>1, <1>2, <1>3, <1>4
<1>6. Entries(D) = Entries(C) \cup {e}
  BY <1>1, <1>2, <1>4 DEF Entries
<1>. QED BY <1>2, <1>5, <1>6 DEF Lru, D

(* get() loses the entry of the key if that has expired, and nothing else. *)
LEMMA GetKeeps ==
  ASSUME NEW C \in Lru, NEW k
  PROVE  /\ Get(C, k) \in Lru
         /\ Entries(Get(C, k)) = {e \in Entries(C) : e.key # k \/ ~Expired(e)}
<1>1. CASE Live(C, k)
  <2> DEFINE e == Entry(C, k)
  <2>1. e \in Entries(C) /\ e.key = k /\ ~Expired(e) /\ \A f \in Entries(C) : f.key = k => f = e
    BY <1>1, LiveEntries
  <2>2. PICK n \in DOMAIN C : C[n] = e
    BY <2>1 DEF Entries
  <2>3. Get(C, k) = Append(Drop(C, k), e)
    BY <1>1 DEF Get
  <2>. HIDE DEF e
  <2>4. /\ Drop(C, k) \in Lru /\ Entries(Drop(C, k)) = {f \in Entries(C) : f.key # k}
        /\ Len(Drop(C, k)) = Len(C) - 1
    BY <2>1, <2>2, DropsKey
  <2>5. Len(Drop(C, k)) + 1 <= MaxSize
    BY <2>4, LruShape, QosAssumption
  <2>6. e \in Answer
    BY <2>1, LruShape
  <2>7. \A f \in Entries(Drop(C, k)) : f.key # e.key
    BY <2>1, <2>4
  <2>8. Get(C, k) \in Lru /\ Entries(Get(C, k)) = Entries(Drop(C, k)) \cup {e}
    BY <2>3, <2>4, <2>5, <2>6, <2>7, Appending
  <2>9. {f \in Entries(C) : f.key # k} \cup {e} = {f \in Entries(C) : f.key # k \/ ~Expired(f)}
    BY <2>1
  <2>. QED BY <2>4, <2>8, <2>9
<1>2. CASE ~Live(C, k)
  <2>1. Get(C, k) \in Lru /\ Entries(Get(C, k)) = {e \in Entries(C) : e.key # k}
    BY <1>2, DropsKey DEF Get
  <2>2. \A e \in Entries(C) : e.key = k => Expired(e)
    BY <1>2, LiveEntries
  <2>. QED BY <2>1, <2>2
<1>. QED BY <1>1, <1>2

(* A full cache loses the entry used longest ago, ...                      *)
LEMMA TailForgetsOne ==
  ASSUME NEW C \in Lru, Len(C) >= MaxSize
  PROVE  /\ Tail(C) \in Lru /\ Len(Tail(C)) = Len(C) - 1
         /\ C[1] \in Entries(C) /\ Entries(Tail(C)) = Entries(C) \ {C[1]}
<1> DEFINE D == Tail(C)
<1>0. /\ C \in Seq(Answer) /\ Len(C) \in Nat /\ DOMAIN C = 1..Len(C) /\ Len(C) <= MaxSize
      /\ \A m, n \in DOMAIN C : C[m].key = C[n].key => m = n
  BY LruShape
<1>1. C # <<>> /\ 1 \in DOMAIN C
  <2>1. Len(C) # 0
    BY <1>0, QosAssumption
  <2>. QED BY <1>0, <2>1
<1>2. D \in Seq(Answer) /\ Len(D) = Len(C) - 1 /\ \A n \in 1..Len(D) : D[n] = C[n + 1]
  BY <1>0, <1>1, HeadTailProperties
<1>. HIDE DEF D
<1>3. DOMAIN D = 1..Len(D) /\ \A n \in DOMAIN D : n + 1 \in DOMAIN C
  BY <1>0, <1>2
<1>4. ASSUME NEW m \in DOMAIN D, NEW n \in DOMAIN D, D[m].key = D[n].key PROVE m = n
  <2>1. m + 1 = n + 1
    BY <1>0, <1>2, <1>3, <1>4
  <2>. QED BY <1>0, <1>2, <1>3, <2>1
<1>5. D \in Lru
  <2>1. Len(D) <= MaxSize
    BY <1>0, <1>2, QosAssumption
  <2>. QED BY <1>2, <1>4, <2>1 DEF Lru
<1>6. ASSUME NEW n \in DOMAIN D PROVE D[n] \in Entries(C) \ {C[1]}
  <2>1. D[n] = C[n + 1] /\ n + 1 \in DOMAIN C /\ n + 1 # 1
    BY <1>0, <1>2, <1>3
  <2>2. C[n + 1] # C[1]
    BY <1>0, <1>1, <2>1
  <2>. QED BY <2>1, <2>2 DEF Entries
<1>7. ASSUME NEW m \in DOMAIN C, C[m] # C[1] PROVE C[m] \in Entries(D)
  <2>1. m - 1 \in DOMAIN D /\ (m - 1) + 1 = m
    BY <1>0, <1>2, <1>3, <1>7
  <2>2. D[m - 1] = C[m]
    BY <1>2, <1>3, <2>1
  <2>. QED BY <2>1, <2>2 DEF Entries
<1>8. Entries(D) = Entries(C) \ {C[1]}
  BY <1>6, <1>7 DEF Entries
<1>. QED BY <1>1, <1>2, <1>5, <1>8 DEF D, Entries

(* ... so that set() remembers the new answer, and forgets one of another  *)
(* key if it must, and that alone.                                         *)
LEMMA SetRemembers ==
  ASSUME NEW C \in Lru, NEW e \in Answer
  PROVE  /\ Set(C, e) \in Lru
         /\ \/ /\ \E f \in Entries(C) : f.key = e.key
               /\ Entries(Set(C, e)) = {f \in Entries(C) : f.key # e.key} \cup {e}
            \/ /\ \A f \in Entries(C) : f.key # e.key
               /\ ~(Len(C) >= MaxSize)
               /\ Entries(Set(C, e)) = Entries(C) \cup {e}
            \/ /\ \A f \in Entries(C) : f.key # e.key
               /\ Len(C) >= MaxSize
               /\ \E g \in Entries(C) : Entries(Set(C, e)) = (Entries(C) \ {g}) \cup {e}
<1>0. /\ C \in Seq(Answer) /\ Len(C) \in Nat /\ DOMAIN C = 1..Len(C) /\ Len(C) <= MaxSize
      /\ \A n \in DOMAIN C : C[n] \in Answer
      /\ \A m, n \in DOMAIN C : C[m].key = C[n].key => m = n
  BY LruShape
<1>1. CASE \E n \in DOMAIN C : C[n].key = e.key
  <2> DEFINE D == [n \in DOMAIN C |-> IF C[n].key = e.key THEN e ELSE C[n]]
  <2>1. Set(C, e) = D
    BY <1>1 DEF Set
  <2>2. DOMAIN D = DOMAIN C /\ \A n \in DOMAIN C : D[n] = IF C[n].key = e.key THEN e ELSE C[n]
    OBVIOUS
  <2>3. D \in [1..Len(C) -> Answer]
    BY <1>0
  <2>. HIDE DEF D
  <2>4. D \in Seq(Answer) /\ Len(D) = Len(C)
    BY <1>0, <2>3, FunctionIsSeq
  <2>5. \A n \in DOMAIN D : D[n].key = C[n].key
    BY <2>2
  <2>6. D \in Lru
    BY <1>0, <2>2, <2>4, <2>5 DEF Lru
  <2>7. e \in Entries(D) /\ \E f \in Entries(C) : f.key = e.key
    BY <1>1, <2>2 DEF Entries
  <2>8. \A f \in Entries(D) : f = e \/ (f \in Entries(C) /\ f.key # e.key)
    BY <2>2 DEF Entries
  <2>9. \A f \in Entries(C) : f.key # e.key => f \in Entries(D)
    BY <2>2 DEF Entries
  <2>10. Entries(D) = {f \in Entries(C) : f.key # e.key} \cup {e}
    BY <2>7, <2>8, <2>9
  <2>. QED BY <2>1, <2>6, <2>7, <2>10
<1>2. CASE ~\E n \in DOMAIN C : C[n].key = e.key
  <2>0. \A f \in Entries(C) : f.key # e.key
    BY <1>2 DEF Entries
  <2>1. CASE Len(C) >= MaxSize
    <3>1. /\ Tail(C) \in Lru /\ Len(Tail(C)) = Len(C) - 1
          /\ C[1] \in Entries(C) /\ Entries(Tail(C)) = Entries(C) \ {C[1]}
      BY <2>1, TailForgetsOne
    <3>2. Len(Tail(C)) + 1 <= MaxSize
      BY <1>0, <3>1, QosAssumption
    <3>3. Set(C, e) = Append(Tail(C), e)
      BY <1>2, <2>1 DEF Set
    <3>4. \A f \in Entries(Tail(C)) : f.key # e.key
      BY <2>0, <3>1
    <3>5. Append(Tail(C), e) \in Lru /\ Entries(Append(Tail(C), e)) = Entries(Tail(C)) \cup {e}
      BY <3>1, <3>2, <3>4, Appending
    <3>. QED BY <2>0, <2>1, <3>1, <3>3, <3>5
  <2>2. CASE ~(Len(C) >= MaxSize)
    <3>1. Set(C, e) = Append(C, e)
      BY <1>2, <2>2 DEF Set
    <3>2. Len(C) + 1 <= MaxSize
      BY <1>0, <2>2, QosAssumption
    <3>3. Append(C, e) \in Lru /\ Entries(Append(C, e)) = Entries(C) \cup {e}
      BY <2>0, <3>2, Appending
    <3>. QED BY <2>0, <2>2, <3>1, <3>3
  <2>. QED BY <2>1, <2>2
<1>. QED BY <1>1, <1>2

LEMMA RememberKeeps ==
  ASSUME NEW C \in Lru, NEW i \in Layers, NEW k \in Keys \cup {NoKey}, NEW run \in Nat, now \in Nat
  PROVE  /\ Remember(i, C, k, run) \in Lru
         /\ \A e \in Entries(Remember(i, C, k, run)) :
              \/ e \in Entries(C) /\ e.key # k
              \/ k \in Keys /\ e = [key |-> k, run |-> run, expires |-> now + Ttl[i]]
<1>1. CASE k = NoKey
  <2>1. Remember(i, C, k, run) = C
    BY <1>1 DEF Remember
  <2>2. \A e \in Entries(C) : e.key # k
    BY <1>1, LruShape, QosAssumption DEF Answer
  <2>. QED BY <2>1, <2>2
<1>2. CASE k # NoKey
  <2> DEFINE e == [key |-> k, run |-> run, expires |-> now + Ttl[i]]
  <2>1. Ttl[i] \in Nat
    BY QosAssumption DEF Layers
  <2>2. e \in Answer
    BY <1>2, <2>1 DEF Answer
  <2>3. Remember(i, C, k, run) = Set(C, e) /\ e.key = k /\ k \in Keys
    BY <1>2 DEF Remember
  <2>. HIDE DEF e
  <2>4. /\ Set(C, e) \in Lru
        /\ \A f \in Entries(Set(C, e)) : f = e \/ (f \in Entries(C) /\ f.key # e.key)
    BY <2>2, SetRemembers
  <2>. QED BY <2>3, <2>4 DEF e
<1>. QED BY <1>1, <1>2
-----------------------------------------------------------------------------
(* How long an answer may be kept *)

(* The recursion that defines Kept has a solution: one for the last n      *)
(* interceptors, for every n.  The least n without one would have one.     *)
SumsFrom(m, f) ==
  /\ f \in [1..Interceptors + 1 -> Nat]
  /\ \A i \in m..Interceptors + 1 : f[i] = IF i > Interceptors THEN 0 ELSE Ttl[i] + f[i + 1]

LEMMA SumsExist == \E f : SumsFrom(1, f)
<1>0. Interceptors \in Nat \ {0} /\ Ttl \in [1..Interceptors -> Nat]
  BY QosAssumption
<1> DEFINE Unsolved == {n \in Nat : n <= Interceptors /\ ~\E f : SumsFrom(Interceptors + 1 - n, f)}
<1>1. ASSUME Unsolved # {} PROVE FALSE
  <2>0. Unsolved \subseteq Nat
    OBVIOUS
  <2>1. PICK n \in Unsolved : \A l \in Unsolved : n <= l
    BY <1>1, <2>0, OutermostExists
  <2>2. n \in Nat /\ n <= Interceptors /\ ~\E f : SumsFrom(Interceptors + 1 - n, f)
    OBVIOUS
  <2>3. CASE n = 0
    <3>1. SumsFrom(Interceptors + 1 - n, [i \in 1..Interceptors + 1 |-> 0])
      BY <1>0, <2>3 DEF SumsFrom
    <3>. QED BY <2>2, <3>1
  <2>4. CASE n # 0
    <3>1. n - 1 \in Nat /\ n - 1 <= Interceptors /\ n - 1 \notin Unsolved
      BY <1>0, <2>1, <2>2, <2>4
    <3>2. PICK f : SumsFrom(Interceptors + 1 - (n - 1), f)
      BY <3>1
    <3>. HIDE DEF Unsolved
    <3> DEFINE m == Interceptors + 1 - n
               g == [f EXCEPT ![m] = Ttl[m] + f[m + 1]]
    <3>3. m \in 1..Interceptors /\ m + 1 \in 1..Interceptors + 1
      BY <1>0, <2>2, <2>4
    <3>4. /\ f \in [1..Interceptors + 1 -> Nat]
          /\ \A i \in m + 1..Interceptors + 1 : f[i] = IF i > Interceptors THEN 0 ELSE Ttl[i] + f[i + 1]
      <4>1. Interceptors + 1 - (n - 1) = m + 1
        BY <1>0, <2>2
      <4>. QED BY <3>2, <4>1 DEF SumsFrom
    <3>. HIDE DEF m
    <3>5. g \in [1..Interceptors + 1 -> Nat] /\ g[m] = Ttl[m] + g[m + 1]
      BY <1>0, <3>3, <3>4
    <3>6. ASSUME NEW i \in m + 1..Interceptors + 1
          PROVE  g[i] = IF i > Interceptors THEN 0 ELSE Ttl[i] + g[i + 1]
      <4>1. i \in 1..Interceptors + 1 /\ i # m /\ i + 1 # m
        BY <1>0, <3>3
      <4>2. g[i] = f[i] /\ (i <= Interceptors => g[i + 1] = f[i + 1])
        BY <1>0, <3>4, <4>1
      <4>. QED BY <1>0, <3>4, <4>1, <4>2
    <3>7. ~(m > Interceptors)
      BY <1>0, <3>3
    <3>. HIDE DEF g
    <3>8. \A i \in m..Interceptors + 1 : i = m \/ i \in m + 1..Interceptors + 1
      BY <1>0, <3>3
    <3>9. SumsFrom(m, g)
      BY <3>5, <3>6, <3>7, <3>8 DEF SumsFrom
    <3>. QED BY <2>2, <3>9 DEF m
  <2>. QED BY <2>3, <2>4
<1>2. Interceptors \notin Unsolved
  BY <1>1
<1>3. \E f : SumsFrom(Interceptors + 1 - Interceptors, f)
  BY <1>0, <1>2
<1>4. Interceptors + 1 - Interceptors = 1
  BY <1>0
<1>. QED BY <1>3, <1>4

LEMMA KeptEquation ==
  Kept = [i \in 1..Interceptors + 1 |-> IF i > Interceptors THEN 0 ELSE Ttl[i] + Kept[i + 1]]
<1> DEFINE Good(f) == f = [i \in 1..Interceptors + 1 |-> IF i > Interceptors THEN 0 ELSE Ttl[i] + f[i + 1]]
<1>1. PICK f : SumsFrom(1, f)
  BY SumsExist
<1>2. Good(f)
  BY <1>1 DEF SumsFrom
<1>3. Kept = CHOOSE g : Good(g)
  BY DEF Kept
<1>. HIDE DEF Good
<1>4. Good(Kept)
  BY <1>2, <1>3
<1>. QED BY <1>4 DEF Good

(* An answer may be kept the longer, the more caches it may pass.          *)
LEMMA KeptSums ==
  /\ Kept \in [1..Interceptors + 1 -> Nat]
  /\ Kept[Interceptors + 1] = 0
  /\ \A i \in Layers : Kept[i] = Ttl[i] + Kept[i + 1]
<1>0. Interceptors \in Nat \ {0} /\ Ttl \in [1..Interceptors -> Nat]
  BY QosAssumption
<1>1. /\ Kept[Interceptors + 1] = 0
      /\ \A i \in Layers : Kept[i] = Ttl[i] + Kept[i + 1]
  <2>1. Kept[Interceptors + 1] = 0
    BY <1>0, KeptEquation
  <2>2. ASSUME NEW i \in Layers PROVE Kept[i] = Ttl[i] + Kept[i + 1]
    <3>1. i \in 1..Interceptors + 1 /\ ~(i > Interceptors)
      BY <1>0 DEF Layers
    <3>. QED BY <3>1, KeptEquation
  <2>. QED BY <2>1, <2>2
<1> DEFINE Wrong == {n \in Nat : n <= Interceptors /\ Kept[Interceptors + 1 - n] \notin Nat}
<1>2. ASSUME Wrong # {} PROVE FALSE
  <2>0. Wrong \subseteq Nat
    OBVIOUS
  <2>1. PICK n \in Wrong : \A l \in Wrong : n <= l
    BY <1>2, <2>0, OutermostExists
  <2>2. n \in Nat /\ n <= Interceptors /\ Kept[Interceptors + 1 - n] \notin Nat
    OBVIOUS
  <2>3. n # 0
    BY <1>0, <1>1, <2>2
  <2>4. n - 1 \in Nat /\ n - 1 <= Interceptors /\ n - 1 \notin Wrong
    <3>1. n - 1 \in Nat /\ n - 1 <= Interceptors /\ ~(n <= n - 1)
      BY <1>0, <2>2, <2>3
    <3>. HIDE DEF Wrong
    <3>. QED BY <2>1, <3>1
  <2>5. Kept[Interceptors + 1 - (n - 1)] \in Nat
    BY <2>4
  <2> DEFINE i == Interceptors + 1 - n
  <2>6. i \in Layers /\ i + 1 = Interceptors + 1 - (n - 1)
    BY <1>0, <2>2, <2>3 DEF Layers
  <2>. HIDE DEF i, Wrong
  <2>7. Ttl[i] \in Nat /\ Kept[i + 1] \in Nat
    BY <1>0, <2>5, <2>6 DEF Layers
  <2>8. Kept[i] \in Nat
    BY <1>1, <2>6, <2>7
  <2>. QED BY <2>2, <2>8 DEF i
<1>3. ASSUME NEW i \in 1..Interceptors + 1 PROVE Kept[i] \in Nat
  <2>1. Interceptors + 1 - i \in Nat /\ Interceptors + 1 - i <= Interceptors
        /\ Interceptors + 1 - (Interceptors + 1 - i) = i
    BY <1>0
  <2>2. Interceptors + 1 - i \notin Wrong
    BY <1>2
  <2>3. Kept[Interceptors + 1 - (Interceptors + 1 - i)] \in Nat
    BY <2>1, <2>2
  <2>. QED BY <2>1, <2>3
<1>4. DOMAIN Kept = 1..Interceptors + 1 /\ Kept = [i \in 1..Interceptors + 1 |-> Kept[i]]
  BY KeptEquation
<1>. QED BY <1>1, <1>3, <1>4

LEMMA KeptGrows ==
  ASSUME NEW i \in 1..Interceptors + 1, NEW j \in i..Interceptors + 1
  PROVE  Kept[j] <= Kept[i]
<1>0. Interceptors \in Nat \ {0} /\ Ttl \in [1..Interceptors -> Nat] /\ Kept \in [1..Interceptors + 1 -> Nat]
  BY QosAssumption, KeptSums
<1> DEFINE More == {l \in i..Interceptors + 1 : ~(Kept[l] <= Kept[i])}
<1>1. ASSUME More # {} PROVE FALSE
  <2>0. More \subseteq Nat
    BY <1>0
  <2>1. PICK l \in More : \A m \in More : l <= m
    BY <1>1, <2>0, OutermostExists
  <2>2. l \in i..Interceptors + 1 /\ ~(Kept[l] <= Kept[i]) /\ l \in Nat /\ i \in Nat
    BY <1>0
  <2>3. l # i
    BY <1>0, <2>2
  <2>4. l - 1 \in i..Interceptors + 1 /\ l - 1 \in Layers /\ (l - 1) + 1 = l
    BY <1>0, <2>2, <2>3 DEF Layers
  <2>5. l - 1 \notin More
    <3>1. ~(l <= l - 1)
      BY <2>2
    <3>. HIDE DEF More
    <3>. QED BY <2>1, <3>1
  <2>6. Kept[l - 1] <= Kept[i]
    BY <2>4, <2>5
  <2>7. Kept[l - 1] = Ttl[l - 1] + Kept[l]
    BY <2>4, KeptSums
  <2>8. Ttl[l - 1] \in Nat /\ Kept[l] \in Nat /\ Kept[i] \in Nat /\ Kept[l - 1] \in Nat
    BY <1>0, <2>2, <2>4 DEF Layers
  <2>. HIDE DEF More
  <2>. QED BY <2>2, <2>6, <2>7, <2>8
<1>. QED BY <1>1
-----------------------------------------------------------------------------
(* What the steps do *)

(* r looks up k in interceptor j and is not kept waiting for its lock.     *)
Passes(j, k, mine) == ~Live(cache[j], k) /\ (j = mine \/ ~Busy(j, k))

(* C is what lookups of k leave of the caches: they lose what they had for *)
(* k if that has expired, and nothing else.                                *)
LookedUp(C, k) ==
  /\ C \in [Layers -> Lru]
  /\ \A j \in Layers : \A e \in Entries(C[j]) : e \in Entries(cache[j])
  /\ \A j \in Layers : \A e \in Entries(cache[j]) : e.key # k \/ ~Expired(e) => e \in Entries(C[j])

(* The request runs the method, ...                                        *)
DescendRuns(r, k, i, mine, waiters) ==
  /\ pc' = [pc EXCEPT ![r] = "executing"]
  /\ starts' = [starts EXCEPT ![r] = @ + 1]
  /\ LookedUp(cache', k)
  /\ queue' = waiters
  /\ UNCHANGED <<depth, reply>>
  /\ \A j \in i..Interceptors : Passes(j, k, mine)

(* ... is answered by the cache of interceptor last, ...                   *)
DescendAnswered(r, k, i, mine, waiters, last) ==
  /\ Live(cache[last], k)
  /\ \A j \in i..Interceptors : j < last => Passes(j, k, mine)
  /\ \E seen : LookedUp(seen, k) /\ Answered(r, k, last, seen, Entry(cache[last], k).run)
  /\ queue' = waiters
  /\ UNCHANGED <<depth, starts>>

(* ... or waits for the lock of interceptor last.                          *)
DescendWaits(r, k, i, mine, waiters, last) ==
  /\ k \in Keys
  /\ \A j \in i..Interceptors : j < last => Passes(j, k, mine)
  /\ pc' = [pc EXCEPT ![r] = "waiting"]
  /\ depth' = [depth EXCEPT ![r] = last]
  /\ queue' = [waiters EXCEPT ![last][k] = Append(@, r)]
  /\ LookedUp(cache', k)
  /\ UNCHANGED <<starts, reply>>

LEMMA DescendOutcome ==
  ASSUME NEW r, NEW k, NEW i \in 1..Interceptors + 1, NEW mine, NEW waiters,
         cache \in [Layers -> Lru], Descend(r, k, i, mine, waiters)
  PROVE  /\ UNCHANGED <<now, ran>>
         /\ \/ DescendRuns(r, k, i, mine, waiters)
            \/ \E last \in i..Interceptors : \/ DescendAnswered(r, k, i, mine, waiters, last)
                                            \/ DescendWaits(r, k, i, mine, waiters, last)
<1> DEFINE stops == {j \in i..Interceptors : Live(cache[j], k) \/ (j # mine /\ Busy(j, k))}
           last == IF stops = {} THEN Interceptors
                   ELSE CHOOSE j \in stops : \A l \in stops : j <= l
           seen == [j \in Layers |-> IF j \in i..last THEN Get(cache[j], k) ELSE cache[j]]
<1>1. stops \subseteq i..Interceptors /\ stops \subseteq Nat /\ Interceptors \in Nat
  BY QosAssumption
<1>2. stops # {} => last \in stops /\ \A l \in stops : last <= l
  <2>. SUFFICES ASSUME stops # {} PROVE last \in stops /\ \A l \in stops : last <= l
    OBVIOUS
  <2>1. \E j \in stops : \A l \in stops : j <= l
    BY <1>1, OutermostExists
  <2>. QED BY <2>1
<1>3. LookedUp(seen, k)
  <2>1. \A j \in Layers : seen[j] = Get(cache[j], k) \/ seen[j] = cache[j]
    OBVIOUS
  <2>2. DOMAIN seen = Layers /\ seen = [j \in Layers |-> seen[j]]
    OBVIOUS
  <2>. HIDE DEF seen
  <2>3. \A j \in Layers : cache[j] \in Lru
    OBVIOUS
  <2>4. ASSUME NEW j \in Layers
        PROVE  /\ seen[j] \in Lru
               /\ \A e \in Entries(seen[j]) : e \in Entries(cache[j])
               /\ \A e \in Entries(cache[j]) : e.key # k \/ ~Expired(e) => e \in Entries(seen[j])
    BY <2>1, <2>3, GetKeeps
  <2>. QED BY <2>2, <2>4 DEF LookedUp
<1>4. ASSUME NEW j \in i..Interceptors, j \notin stops PROVE Passes(j, k, mine)
  BY <1>4 DEF Passes
<1>5. ASSUME stops # {} PROVE \A j \in i..Interceptors : j < last => Passes(j, k, mine)
  <2>. SUFFICES ASSUME NEW j \in i..Interceptors, j < last PROVE j \notin stops
    BY <1>4
  <2>1. j \in stops => last <= j
    BY <1>2, <1>5
  <2>2. j \in Nat /\ last \in Nat
    BY <1>1, <1>2, <1>5
  <2>. HIDE DEF stops, last
  <2>. QED BY <2>1, <2>2
<1>6. /\ \/ /\ stops = {}
            /\ pc' = [pc EXCEPT ![r] = "executing"]
            /\ starts' = [starts EXCEPT ![r] = @ + 1]
            /\ cache' = seen
            /\ queue' = waiters
            /\ UNCHANGED <<depth, reply>>
         \/ /\ stops # {} /\ Live(cache[last], k)
            /\ Answered(r, k, last, seen, Entry(cache[last], k).run)
            /\ queue' = waiters
            /\ UNCHANGED <<depth, starts>>
         \/ /\ stops # {} /\ ~Live(cache[last], k)
            /\ pc' = [pc EXCEPT ![r] = "waiting"]
            /\ depth' = [depth EXCEPT ![r] = last]
            /\ queue' = [waiters EXCEPT ![last][k] = Append(@, r)]
            /\ cache' = seen
            /\ UNCHANGED <<starts, reply>>
      /\ UNCHANGED <<now, ran>>
  BY DEF Descend
<1>7. stops # {} => last \in i..Interceptors /\ (~Live(cache[last], k) => k \in Keys)
  BY <1>1, <1>2 DEF Busy
<1>8. stops = {} => \A j \in i..Interceptors : j \notin stops
  OBVIOUS
<1>. HIDE DEF stops, last, seen
<1>9. CASE stops = {}
  BY <1>3, <1>4, <1>6, <1>8, <1>9 DEF DescendRuns
<1>10. CASE stops # {} /\ Live(cache[last], k)
  <2>1. DescendAnswered(r, k, i, mine, waiters, last)
    BY <1>3, <1>5, <1>6, <1>10 DEF DescendAnswered
  <2>. QED BY <1>6, <1>7, <1>10, <2>1
<1>11. CASE stops # {} /\ ~Live(cache[last], k)
  <2>1. DescendWaits(r, k, i, mine, waiters, last)
    BY <1>3, <1>5, <1>6, <1>7, <1>11 DEF DescendWaits
  <2>. QED BY <1>6, <1>7, <1>11, <2>1
<1>. QED BY <1>9, <1>10, <1>11

(* What Answered makes of the caches: those further out remember the       *)
(* answer in place of what they had for the key.                           *)
LEMMA AnsweredRemembers ==
  ASSUME NEW C \in [Layers -> Lru], NEW r, NEW k \in Keys \cup {NoKey},
         NEW i \in 1..Interceptors + 1, NEW run \in Nat, now \in Nat, Answered(r, k, i, C, run)
  PROVE  /\ cache' \in [Layers -> Lru]
         /\ \A j \in Layers : ~(j < i) => cache'[j] = C[j]
         /\ \A j \in Layers : j < i => \A e \in Entries(cache'[j]) :
              \/ e \in Entries(C[j]) /\ e.key # k
              \/ k \in Keys /\ e = [key |-> k, run |-> run, expires |-> now + Ttl[j]]
<1>1. cache' = [j \in Layers |-> IF j < i THEN Remember(j, C[j], k, run) ELSE C[j]]
  BY DEF Answered
<1>2. \A j \in Layers : C[j] \in Lru
  OBVIOUS
<1>3. ASSUME NEW j \in Layers
      PROVE  /\ Remember(j, C[j], k, run) \in Lru
             /\ \A e \in Entries(Remember(j, C[j], k, run)) :
                  \/ e \in Entries(C[j]) /\ e.key # k
                  \/ k \in Keys /\ e = [key |-> k, run |-> run, expires |-> now + Ttl[j]]
  BY <1>2, RememberKeeps
<1>4. \A j \in Layers : cache'[j] \in Lru
  BY <1>1, <1>2, <1>3
<1>5. cache' \in [Layers -> Lru]
  BY <1>1, <1>4
<1>. QED BY <1>1, <1>3, <1>5
-----------------------------------------------------------------------------
(* Types *)

Queues == [Layers -> [Keys -> Seq(Requests)]]

DataTypes ==
  /\ attempt \in [Requests -> [Layers -> 0..MaxAttempts]]
  /\ \A r \in Requests : pc[r] = "backoff" => attempt[r][depth[r]] < MaxAttempts
  /\ queue \in Queues
  /\ cache \in [Layers -> Lru]
  /\ now \in 0..MaxTime
  /\ ran \in Seq([request : Requests, at : 0..MaxTime])
  /\ starts \in [Requests -> Nat]
  /\ reply \in [Requests -> [run : Nat, at : Nat]]

LEMMA InitTypes == Init => DataTypes
<1>. SUFFICES ASSUME Init PROVE DataTypes
  OBVIOUS
<1>1. <<>> \in Lru
  BY QosAssumption, EmptySeq DEF Lru
<1>2. attempt \in [Requests -> [Layers -> 0..MaxAttempts]]
  BY QosAssumption DEF Init
<1>3. queue \in Queues
  BY DEF Init, Queues
<1>4. \A r \in Requests : pc[r] # "backoff"
  BY DEF Init
<1>. QED BY <1>1, <1>2, <1>3, <1>4, QosAssumption DEF Init, DataTypes, NoReply

LEMMA UnqueuedType ==
  ASSUME queue \in Queues, NEW r
  PROVE  Unqueued(r) \in Queues
<1> DEFINE leave(Q) == IF \E n \in DOMAIN Q : Q[n] = r
                       THEN Without(Q, CHOOSE n \in DOMAIN Q : Q[n] = r)
                       ELSE Q
<1>1. ASSUME NEW Q \in Seq(Requests) PROVE leave(Q) \in Seq(Requests)
  <2>1. CASE \E n \in DOMAIN Q : Q[n] = r
    <3>1. (CHOOSE n \in DOMAIN Q : Q[n] = r) \in DOMAIN Q
      BY <2>1
    <3>. QED BY <2>1, <3>1, WithoutOne
  <2>2. CASE ~\E n \in DOMAIN Q : Q[n] = r
    BY <2>2
  <2>. QED BY <2>1, <2>2
<1>2. Unqueued(r) = [i \in Layers |-> [k \in Keys |-> leave(queue[i][k])]]
  BY DEF Unqueued
<1>. HIDE DEF leave
<1>3. \A i \in Layers, k \in Keys : leave(queue[i][k]) \in Seq(Requests)
  BY <1>1 DEF Queues
<1>. QED BY <1>2, <1>3 DEF Queues

LEMMA DescendTypes ==
  ASSUME NEW r \in Requests, NEW k \in Keys \cup {NoKey}, NEW i \in 1..Interceptors + 1,
         NEW mine, NEW waiters \in Queues, Types, DataTypes, Descend(r, k, i, mine, waiters),
         attempt' \in [Requests -> [Layers -> 0..MaxAttempts]],
         \A q \in Requests \ {r} : attempt'[q] = attempt[q]
  PROVE  DataTypes'
<1>0. cache \in [Layers -> Lru] /\ now \in Nat /\ Interceptors \in Nat
  BY QosAssumption DEF DataTypes
<1>1. UNCHANGED <<now, ran>>
  BY <1>0, DescendOutcome
<1>2. ASSUME NEW p \in {"executing", "done", "waiting"}, pc' = [pc EXCEPT ![r] = p],
             \A q \in Requests \ {r} : depth'[q] = depth[q]
      PROVE  \A q \in Requests : pc'[q] = "backoff" => attempt'[q][depth'[q]] < MaxAttempts
  BY <1>2 DEF Types, DataTypes
<1>3. CASE DescendRuns(r, k, i, mine, waiters)
  <2>1. cache' \in [Layers -> Lru] /\ queue' \in Queues /\ UNCHANGED reply
    BY <1>3 DEF DescendRuns, LookedUp
  <2>2. starts' \in [Requests -> Nat]
    BY <1>3 DEF DescendRuns, DataTypes
  <2>3. \A q \in Requests : pc'[q] = "backoff" => attempt'[q][depth'[q]] < MaxAttempts
    BY <1>2, <1>3 DEF DescendRuns
  <2>. QED BY <1>1, <2>1, <2>2, <2>3 DEF DataTypes, Queues
<1>4. ASSUME NEW last \in i..Interceptors, DescendAnswered(r, k, i, mine, waiters, last)
      PROVE  DataTypes'
  <2>1. last \in Layers /\ last \in 1..Interceptors + 1
    BY <1>0 DEF Layers
  <2>2. Entry(cache[last], k) \in Answer
    BY <1>0, <1>4, <2>1, LiveEntries, LruShape DEF DescendAnswered
  <2>3. PICK seen : LookedUp(seen, k) /\ Answered(r, k, last, seen, Entry(cache[last], k).run)
    BY <1>4 DEF DescendAnswered
  <2> DEFINE run == Entry(cache[last], k).run
  <2>4. run \in Nat
    BY <2>2 DEF Answer
  <2>5. cache' \in [Layers -> Lru]
    <3>1. seen \in [Layers -> Lru] /\ Answered(r, k, last, seen, run)
      BY <2>3 DEF LookedUp
    <3>. HIDE DEF run
    <3>. QED BY <1>0, <2>1, <2>4, <3>1, AnsweredRemembers
  <2>6. reply' \in [Requests -> [run : Nat, at : Nat]]
    <3>1. reply' = [reply EXCEPT ![r] = [run |-> run, at |-> now]]
      BY <2>3 DEF Answered
    <3>. HIDE DEF run
    <3>. QED BY <1>0, <2>4, <3>1 DEF DataTypes
  <2>7. \A q \in Requests : pc'[q] = "backoff" => attempt'[q][depth'[q]] < MaxAttempts
    BY <1>2, <1>4, <2>3 DEF DescendAnswered, Answered
  <2>. QED BY <1>1, <1>4, <2>5, <2>6, <2>7 DEF DataTypes, DescendAnswered, Queues
<1>5. ASSUME NEW last \in i..Interceptors, DescendWaits(r, k, i, mine, waiters, last)
      PROVE  DataTypes'
  <2>1. last \in Layers /\ k \in Keys
    BY <1>0, <1>5 DEF Layers, DescendWaits
  <2>2. waiters[last] \in [Keys -> Seq(Requests)] /\ waiters[last][k] \in Seq(Requests)
    BY <2>1 DEF Queues
  <2>3. Append(waiters[last][k], r) \in Seq(Requests)
    BY <2>2
  <2>4. queue' = [waiters EXCEPT ![last] = [waiters[last] EXCEPT ![k] = Append(waiters[last][k], r)]]
    BY <1>5 DEF DescendWaits
  <2>5. [waiters[last] EXCEPT ![k] = Append(waiters[last][k], r)] \in [Keys -> Seq(Requests)]
    BY <2>2, <2>3
  <2>6. queue' \in Queues
    BY <2>4, <2>5 DEF Queues
  <2>7. cache' \in [Layers -> Lru] /\ UNCHANGED <<starts, reply>>
    BY <1>5 DEF DescendWaits, LookedUp
  <2>8. \A q \in Requests : pc'[q] = "backoff" => attempt'[q][depth'[q]] < MaxAttempts
    <3>1. \A q \in Requests \ {r} : depth'[q] = depth[q]
      BY <1>5 DEF DescendWaits, Types
    <3>. QED BY <1>2, <1>5, <3>1 DEF DescendWaits
  <2>. QED BY <1>1, <2>6, <2>7, <2>8 DEF DataTypes, Queues
<1>. QED BY <1>0, <1>3, <1>4, <1>5, DescendOutcome

(* An attempt is made again only in an interceptor that has one left.      *)
LEMMA FailTypes ==
  ASSUME NEW r \in Requests, NEW i \in Layers, NEW error, Types, DataTypes, Fail(r, i, error)
  PROVE  DataTypes'
<1> DEFINE left == {j \in 1..i : error \in Retryable /\ attempt[r][j] < MaxAttempts}
<1>0. UNCHANGED <<attempt, key, cache, now, ran, starts, reply>> /\ queue' = Unqueued(r)
  BY DEF Fail
<1>1. queue' \in Queues
  BY <1>0, UnqueuedType DEF DataTypes
<1>2. \A q \in Requests : pc'[q] = "backoff" => attempt'[q][depth'[q]] < MaxAttempts
  <2>1. CASE left = {} /\ pc' = [pc EXCEPT ![r] = "failed"] /\ UNCHANGED depth
    BY <1>0, <2>1 DEF Types, DataTypes
  <2>2. CASE /\ left # {}
             /\ pc' = [pc EXCEPT ![r] = "backoff"]
             /\ depth' = [depth EXCEPT ![r] = CHOOSE j \in left : \A l \in left : l <= j]
    <3> DEFINE d == CHOOSE j \in left : \A l \in left : l <= j
    <3>1. i \in Nat /\ left \subseteq 1..i
      BY QosAssumption DEF Layers
    <3>2. \E j \in left : \A l \in left : l <= j
      <4>. HIDE DEF left
      <4>. QED BY <2>2, <3>1, InnermostExists
    <3>3. d \in left
      BY <3>2
    <3>4. attempt[r][d] < MaxAttempts
      BY <3>3
    <3>5. depth' = [depth EXCEPT ![r] = d]
      BY <2>2
    <3>. HIDE DEF d, left
    <3>6. pc' = [pc EXCEPT ![r] = "backoff"]
      BY <2>2
    <3>. QED BY <1>0, <3>4, <3>5, <3>6 DEF Types, DataTypes
  <2>. QED BY <2>1, <2>2 DEF Fail
<1>. QED BY <1>0, <1>1, <1>2 DEF DataTypes, Queues

LEMMA RespondTypes ==
  ASSUME NEW r \in Requests, Types, DataTypes, Respond(r)
  PROVE  /\ DataTypes'
         /\ ran' = Append(ran, [request |-> r, at |-> now])
         /\ Len(ran) \in Nat /\ Len(ran') = Len(ran) + 1 /\ DOMAIN ran = 1..Len(ran)
         /\ DOMAIN ran' = 1..Len(ran) + 1
         /\ ran'[Len(ran) + 1] = [request |-> r, at |-> now]
         /\ \A n \in DOMAIN ran : ran'[n] = ran[n]
         /\ Answered(r, key[r], Interceptors + 1, cache, Len(ran) + 1)
<1> DEFINE run == [request |-> r, at |-> now]
           Runs == [request : Requests, at : 0..MaxTime]
<1>0. cache \in [Layers -> Lru] /\ now \in Nat /\ Interceptors + 1 \in 1..Interceptors + 1
      /\ key[r] \in Keys \cup {NoKey}
  BY QosAssumption DEF DataTypes, Types
<1>1. ran \in Seq(Runs) /\ run \in Runs /\ ran' = Append(ran, run)
  BY DEF Respond, DataTypes
<1>. HIDE DEF run, Runs
<1>2. /\ ran' \in Seq(Runs)
      /\ Len(ran) \in Nat /\ Len(ran') = Len(ran) + 1 /\ DOMAIN ran = 1..Len(ran)
      /\ DOMAIN ran' = 1..Len(ran) + 1
      /\ ran'[Len(ran) + 1] = run
      /\ \A n \in 1..Len(ran) : ran'[n] = ran[n]
  BY <1>1, AppendProperties, LenProperties
<1>3. Answered(r, key[r], Interceptors + 1, cache, Len(ran) + 1)
  BY <1>2 DEF Respond
<1>4. cache' \in [Layers -> Lru]
  <2>1. Len(ran) + 1 \in Nat
    BY <1>2
  <2>. QED BY <1>0, <1>3, <2>1, AnsweredRemembers
<1>5. reply' \in [Requests -> [run : Nat, at : Nat]]
  <2>1. reply' = [reply EXCEPT ![r] = [run |-> Len(ran) + 1, at |-> now]]
    BY <1>3 DEF Answered
  <2>. QED BY <1>0, <1>2, <2>1 DEF DataTypes
<1>6. pc' = [pc EXCEPT ![r] = "done"] /\ UNCHANGED <<depth, attempt, key, queue, now, starts>>
  BY DEF Respond, Answered
<1>7. \A q \in Requests : pc'[q] = "backoff" => attempt'[q][depth'[q]] < MaxAttempts
  BY <1>6 DEF Types, DataTypes
<1>8. DataTypes'
  BY <1>2, <1>4, <1>5, <1>6, <1>7 DEF DataTypes, Queues, Runs
<1>. QED BY <1>1, <1>2, <1>3, <1>8 DEF run

LEMMA NextTypes == Types /\ DataTypes /\ [Next]_vars => DataTypes'
<1> SUFFICES ASSUME Types, DataTypes, [Next]_vars PROVE DataTypes'
  OBVIOUS
<1>0. Interceptors \in Nat \ {0} /\ MaxAttempts \in Nat \ {0}
  BY QosAssumption
<1>1. ASSUME NEW r \in Requests, Arrive(r) PROVE DataTypes'
  <2>1. PICK k \in Keys \cup {NoKey} : Descend(r, k, 1, 0, queue)
    BY <1>1 DEF Arrive
  <2>2. 1 \in 1..Interceptors + 1 /\ queue \in Queues
    BY <1>0 DEF DataTypes
  <2>3. attempt' = [attempt EXCEPT ![r] = [i \in Layers |-> 1]]
    BY <1>1 DEF Arrive
  <2>4. [i \in Layers |-> 1] \in [Layers -> 0..MaxAttempts]
    BY <1>0
  <2>5. attempt' \in [Requests -> [Layers -> 0..MaxAttempts]]
        /\ \A q \in Requests \ {r} : attempt'[q] = attempt[q]
    BY <2>3, <2>4 DEF DataTypes
  <2>. QED BY <2>1, <2>2, <2>5, DescendTypes
<1>2. ASSUME NEW r \in Requests, LockAcquired(r) PROVE DataTypes'
  <2>1. /\ Descend(r, key[r], depth[r], depth[r], Unqueued(r)) /\ UNCHANGED attempt
        /\ key[r] \in Keys \cup {NoKey} /\ depth[r] \in 1..Interceptors + 1
    BY <1>0, <1>2 DEF LockAcquired, Types, Layers
  <2>2. Unqueued(r) \in Queues /\ attempt' \in [Requests -> [Layers -> 0..MaxAttempts]]
    BY <2>1, UnqueuedType DEF DataTypes
  <2>. QED BY <2>1, <2>2, DescendTypes
<1>3. ASSUME NEW r \in Requests, Respond(r) PROVE DataTypes'
  BY <1>3, RespondTypes
<1>4. ASSUME NEW r \in Requests, Raise(r) PROVE DataTypes'
  <2>1. Interceptors \in Layers
    BY <1>0 DEF Layers
  <2>. QED BY <1>4, <2>1, FailTypes DEF Raise
<1>5. ASSUME NEW r \in Requests, NEW i \in Layers, Timeout(r, i) PROVE DataTypes'
  BY <1>5, FailTypes DEF Timeout
<1>6. ASSUME NEW r \in Requests, Retry(r) PROVE DataTypes'
  <2>1. /\ Descend(r, key[r], depth[r] + 1, 0, queue) /\ pc[r] = "backoff"
        /\ key[r] \in Keys \cup {NoKey} /\ depth[r] \in Layers /\ depth[r] + 1 \in 1..Interceptors + 1
    BY <1>0, <1>6 DEF Retry, Types, Layers
  <2> DEFINE next == [i \in Layers |-> IF i < depth[r] THEN attempt[r][i]
                                      ELSE IF i = depth[r] THEN attempt[r][i] + 1 ELSE 1]
  <2>2. attempt' = [attempt EXCEPT ![r] = next]
    BY <1>6 DEF Retry
  <2>3. attempt[r] \in [Layers -> 0..MaxAttempts] /\ attempt[r][depth[r]] < MaxAttempts
    BY <2>1 DEF DataTypes
  <2>4. next \in [Layers -> 0..MaxAttempts]
    BY <1>0, <2>1, <2>3
  <2>. HIDE DEF next
  <2>5. attempt' \in [Requests -> [Layers -> 0..MaxAttempts]]
        /\ \A q \in Requests \ {r} : attempt'[q] = attempt[q]
    BY <2>2, <2>4 DEF DataTypes
  <2>. QED BY <2>1, <2>5, DescendTypes DEF DataTypes
<1>7. ASSUME NEW r \in Requests, Cancel(r) PROVE DataTypes'
  <2>1. queue' \in Queues
    BY <1>7, UnqueuedType DEF Cancel, DataTypes
  <2>. QED BY <1>7, <2>1 DEF Cancel, DataTypes, Types, Queues
<1>8. CASE Tick
  <2>1. now' \in 0..MaxTime
    BY <1>8, QosAssumption DEF Tick, DataTypes
  <2>. QED BY <1>8, <2>1 DEF Tick, DataTypes, Queues
<1>9. CASE UNCHANGED vars
  BY <1>9 DEF vars, DataTypes, Queues
<1>. QED BY <1>1, <1>2, <1>3, <1>4, <1>5, <1>6, <1>7, <1>8, <1>9 DEF Next
-----------------------------------------------------------------------------
(* Four kinds of steps *)

(* r goes on at interceptor i with the key k, inside those further out;    *)
(* it takes no lock that another holds.                                    *)
Enters(r, k, i, mine, waiters) ==
  /\ Descend(r, k, i, mine, waiters)
  /\ k \in Keys \cup {NoKey} /\ i \in 1..Interceptors + 1
  /\ key' = [key EXCEPT ![r] = k]
  /\ pc[r] \in {"idle", "waiting", "backoff"}
  /\ pc[r] # "idle" => key[r] = k
  /\ \A j \in Layers : j < i => key[r] = k /\ Inside(r, j)
  /\ mine \in Layers => \A q \in Requests : ~HoldsLock(q, mine, k)

(* r leaves interceptors without an answer.                                *)
Leaves(r) ==
  /\ UNCHANGED <<key, cache, now, ran, starts, reply>>
  /\ pc[r] \in Active /\ pc'[r] \in {"failed", "backoff", "gone"}
  /\ \A q \in Requests \ {r} : pc'[q] = pc[q] /\ depth'[q] = depth[q]
  /\ \A j \in Layers : Inside(r, j)' => Inside(r, j)

TimePasses ==
  /\ UNCHANGED <<pc, depth, key, cache, ran, starts, reply>>
  /\ now' \in {now, now + 1}

LEMMA StepKinds ==
  ASSUME Types, [Next]_vars
  PROVE  \/ \E r \in Requests : \E k, i, mine, waiters : Enters(r, k, i, mine, waiters)
         \/ \E r \in Requests : Respond(r)
         \/ \E r \in Requests : Leaves(r)
         \/ TimePasses
<1>0. Interceptors \in Nat \ {0}
  BY QosAssumption
<1>1. ASSUME NEW r \in Requests, Arrive(r) PROVE \E k, i, mine, waiters : Enters(r, k, i, mine, waiters)
  <2>1. PICK k \in Keys \cup {NoKey} : key' = [key EXCEPT ![r] = k] /\ Descend(r, k, 1, 0, queue)
    BY <1>1 DEF Arrive
  <2>2. 1 \in 1..Interceptors + 1 /\ 0 \notin Layers /\ \A j \in Layers : ~(j < 1)
    BY <1>0 DEF Layers
  <2>3. Enters(r, k, 1, 0, queue)
    BY <1>1, <2>1, <2>2 DEF Enters, Arrive
  <2>. QED BY <2>3
<1>2. ASSUME NEW r \in Requests, LockAcquired(r)
      PROVE  \E k, i, mine, waiters : Enters(r, k, i, mine, waiters)
  <2>1. depth[r] \in 1..Interceptors + 1 /\ key[r] \in Keys \cup {NoKey} /\ pc[r] = "waiting"
        /\ key' = [key EXCEPT ![r] = key[r]]
    BY <1>0, <1>2 DEF LockAcquired, Types, Layers
  <2>2. \A j \in Layers : j < depth[r] => Inside(r, j)
    BY <2>1 DEF Inside
  <2>3. Enters(r, key[r], depth[r], depth[r], Unqueued(r))
    BY <1>2, <2>1, <2>2 DEF Enters, LockAcquired
  <2>. QED BY <2>3
<1>3. ASSUME NEW r \in Requests, Retry(r) PROVE \E k, i, mine, waiters : Enters(r, k, i, mine, waiters)
  <2>1. depth[r] \in Layers /\ depth[r] + 1 \in 1..Interceptors + 1 /\ key[r] \in Keys \cup {NoKey}
        /\ pc[r] = "backoff" /\ key' = [key EXCEPT ![r] = key[r]] /\ 0 \notin Layers
    BY <1>0, <1>3 DEF Retry, Types, Layers
  <2>2. \A j \in Layers : j < depth[r] + 1 => Inside(r, j)
    BY <1>0, <2>1 DEF Inside, Layers
  <2>3. Enters(r, key[r], depth[r] + 1, 0, queue)
    BY <1>3, <2>1, <2>2 DEF Enters, Retry
  <2>. QED BY <2>3
<1>4. ASSUME NEW r \in Requests, NEW i \in Layers, NEW error, Fail(r, i, error),
             \/ pc[r] = "executing"
             \/ pc[r] \in {"waiting", "backoff"} /\ i < depth[r]
      PROVE  Leaves(r)
  BY <1>4, FailLeaves DEF Leaves, Fail, Active
<1>5. ASSUME NEW r \in Requests, Raise(r) PROVE Leaves(r)
  BY <1>0, <1>4, <1>5 DEF Raise, Layers
<1>6. ASSUME NEW r \in Requests, NEW i \in Layers, Timeout(r, i) PROVE Leaves(r)
  BY <1>4, <1>6 DEF Timeout
<1>7. ASSUME NEW r \in Requests, Cancel(r) PROVE Leaves(r)
  BY <1>7 DEF Cancel, Leaves, Types, Inside
<1>8. Tick \/ UNCHANGED vars => TimePasses
  BY DEF Tick, vars, TimePasses
<1>. QED BY <1>1, <1>2, <1>3, <1>5, <1>6, <1>7, <1>8 DEF Next

(* One that enters holds no lock that another holds, in the interceptors   *)
(* it passes or is inside of already.                                      *)
LEMMA NobodyElseHolds ==
  ASSUME IInv, NEW r \in Requests, NEW k \in Keys, NEW i, NEW mine, NEW waiters,
         Enters(r, k, i, mine, waiters),
         NEW j \in Layers, j < i \/ Passes(j, k, mine), NEW q \in Requests, q # r
  PROVE  ~HoldsLock(q, j, k)
<1>1. CASE j < i
  <2>1. HoldsLock(r, j, k)
    BY <1>1 DEF Enters, HoldsLock
  <2>. QED BY <2>1 DEF IInv, SingleFlight
<1>2. CASE Passes(j, k, mine)
  BY <1>2 DEF Passes, Busy, Enters
<1>. QED BY <1>1, <1>2
-----------------------------------------------------------------------------
(* Single flight and the caches *)

(* While a request is past the lock of a key, the cache behind the lock    *)
(* has no answer for the key.                                              *)
NotRemembered ==
  \A i \in Layers, k \in Keys, r \in Requests : HoldsLock(r, i, k) => ~Live(cache[i], k)

(* A key that is not remembered stays so unless it is set.                 *)
LEMMA StaysForgotten ==
  ASSUME DataTypes, NEW j \in Layers, NEW k, now' \in {now, now + 1}, ~Live(cache[j], k),
         \A e \in Entries(cache'[j]) : e.key = k => e \in Entries(cache[j])
  PROVE  ~Live(cache[j], k)'
<1>. SUFFICES ASSUME Live(cache[j], k)' PROVE FALSE
  OBVIOUS
<1>1. PICK n \in DOMAIN cache'[j] : cache'[j][n].key = k /\ ~(cache'[j][n].expires <= now')
  BY DEF Live, Expired
<1>2. PICK m \in DOMAIN cache[j] : cache[j][m] = cache'[j][n]
  BY <1>1 DEF Entries
<1>3. cache[j][m] \in Answer
  BY <1>2, LruShape DEF DataTypes
<1>4. cache[j][m].expires \in Nat /\ now \in Nat
  BY <1>3, QosAssumption DEF Answer, DataTypes
<1>5. ~(cache[j][m].expires <= now)
  BY <1>1, <1>2, <1>4
<1>. QED BY <1>1, <1>2, <1>5 DEF Live, Expired

LEMMA EntersForgets ==
  ASSUME IInv, DataTypes, NotRemembered, NEW r \in Requests, NEW k, NEW i, NEW mine, NEW waiters,
         Enters(r, k, i, mine, waiters)
  PROVE  NotRemembered'
<1>0. /\ Descend(r, k, i, mine, waiters) /\ key' = [key EXCEPT ![r] = k]
      /\ i \in 1..Interceptors + 1 /\ k \in Keys \cup {NoKey}
      /\ cache \in [Layers -> Lru] /\ Interceptors \in Nat /\ Types
      /\ now \in Nat
  BY QosAssumption DEF Enters, DataTypes, IInv
<1>1. UNCHANGED <<now, ran>>
  BY <1>0, DescendOutcome
<1>2. ASSUME NEW C, LookedUp(C, k), NEW j \in Layers, cache'[j] = C[j], NEW l \in Keys, ~Live(cache[j], l)
      PROVE  ~Live(cache[j], l)'
  <2>1. \A e \in Entries(cache'[j]) : e \in Entries(cache[j])
    BY <1>2 DEF LookedUp
  <2>. QED BY <1>1, <1>2, <2>1, StaysForgotten
<1>3. ASSUME NEW q \in Requests, q # r, NEW j \in Layers, NEW l \in Keys,
             HoldsLock(q, j, l)', \A p \in Requests \ {r} : pc'[p] = pc[p] /\ depth'[p] = depth[p]
      PROVE  HoldsLock(q, j, l) /\ ~Live(cache[j], l)
  <2>1. HoldsLock(q, j, l)
    BY <1>0, <1>3 DEF HoldsLock, Inside, Types
  <2>. QED BY <2>1 DEF NotRemembered
<1>4. ASSUME NEW last \in Layers,
             LookedUp(cache', k), \A j \in i..Interceptors : j < last \/ pc'[r] = "executing" => Passes(j, k, mine),
             \/ pc' = [pc EXCEPT ![r] = "executing"] /\ UNCHANGED depth
             \/ pc' = [pc EXCEPT ![r] = "waiting"] /\ depth' = [depth EXCEPT ![r] = last]
      PROVE  NotRemembered'
  <2>. SUFFICES ASSUME NEW j \in Layers', NEW l \in Keys, NEW q \in Requests, HoldsLock(q, j, l)'
                PROVE  ~Live(cache[j], l)'
    BY DEF NotRemembered
  <2>0. j \in Layers
    BY DEF Layers
  <2>1. ~Live(cache[j], l)
    <3>1. CASE q = r
      <4>1. l = k /\ (pc'[r] = "executing" \/ (pc'[r] = "waiting" /\ depth'[r] = last /\ j < last))
        BY <1>0, <1>4, <3>1 DEF HoldsLock, Inside, Types
      <4>2. CASE j < i
        <5>1. HoldsLock(r, j, l)
          BY <2>0, <4>1, <4>2 DEF Enters, HoldsLock
        <5>. QED BY <2>0, <5>1 DEF NotRemembered
      <4>3. CASE ~(j < i)
        <5>1. j \in i..Interceptors
          BY <1>0, <2>0, <4>3 DEF Layers
        <5>. QED BY <1>4, <4>1, <5>1 DEF Passes
      <4>. QED BY <4>2, <4>3
    <3>2. CASE q # r
      <4>1. \A p \in Requests \ {r} : pc'[p] = pc[p] /\ depth'[p] = depth[p]
        BY <1>0, <1>4 DEF Types
      <4>. QED BY <1>3, <2>0, <3>2, <4>1
    <3>. QED BY <3>1, <3>2
  <2>. QED BY <1>2, <1>4, <2>0, <2>1
<1>5. CASE DescendRuns(r, k, i, mine, waiters)
  <2>1. Interceptors \in Layers
    BY <1>0, QosAssumption DEF Layers
  <2>. QED BY <1>4, <1>5, <2>1 DEF DescendRuns
<1>6. ASSUME NEW last \in i..Interceptors, DescendWaits(r, k, i, mine, waiters, last)
      PROVE  NotRemembered'
  <2>1. last \in Layers
    BY <1>0 DEF Layers
  <2>2. pc'[r] = "waiting"
    BY <1>0, <1>6 DEF DescendWaits, Types
  <2>. QED BY <1>4, <1>6, <2>1, <2>2 DEF DescendWaits
<1>7. ASSUME NEW last \in i..Interceptors, DescendAnswered(r, k, i, mine, waiters, last)
      PROVE  NotRemembered'
  <2>1. last \in Layers /\ last \in 1..Interceptors + 1
    BY <1>0 DEF Layers
  <2>2. k \in Keys /\ Entry(cache[last], k) \in Answer
    BY <1>0, <1>7, <2>1, LiveEntries, LruShape DEF DescendAnswered
  <2>3. PICK seen : LookedUp(seen, k) /\ Answered(r, k, last, seen, Entry(cache[last], k).run)
    BY <1>7 DEF DescendAnswered
  <2>4. pc' = [pc EXCEPT ![r] = "done"] /\ UNCHANGED depth
    BY <1>7, <2>3 DEF DescendAnswered, Answered
  <2> DEFINE run == Entry(cache[last], k).run
  <2>5. /\ run \in Nat /\ seen \in [Layers -> Lru] /\ Answered(r, k, last, seen, run)
    BY <2>2, <2>3 DEF Answer, LookedUp
  <2>. HIDE DEF run
  <2>6. /\ \A j \in Layers : ~(j < last) => cache'[j] = seen[j]
        /\ \A j \in Layers : j < last => \A e \in Entries(cache'[j]) : e \in Entries(seen[j]) \/ e.key = k
    BY <1>0, <2>1, <2>5, AnsweredRemembers
  <2>. SUFFICES ASSUME NEW j \in Layers', NEW l \in Keys, NEW q \in Requests, HoldsLock(q, j, l)'
                PROVE  ~Live(cache[j], l)'
    BY DEF NotRemembered
  <2>0. j \in Layers
    BY DEF Layers
  <2>7. q # r
    BY <1>0, <2>4 DEF HoldsLock, Inside, Types
  <2>8. HoldsLock(q, j, l) /\ ~Live(cache[j], l)
    <3>1. \A p \in Requests \ {r} : pc'[p] = pc[p] /\ depth'[p] = depth[p]
      BY <1>0, <2>4 DEF Types
    <3>. QED BY <1>3, <2>0, <2>7, <3>1
  <2>9. CASE ~(j < last)
    BY <1>2, <2>0, <2>3, <2>6, <2>8, <2>9
  <2>10. CASE j < last
    <3>1. j < i \/ Passes(j, k, mine)
      <4>1. ~(j < i) => j \in i..Interceptors
        BY <1>0, <2>0 DEF Layers
      <4>. QED BY <1>7, <2>10, <4>1 DEF DescendAnswered
    <3>2. l # k
      BY <2>0, <2>2, <2>7, <2>8, <3>1, NobodyElseHolds
    <3>3. \A e \in Entries(cache'[j]) : e.key = l => e \in Entries(cache[j])
      BY <2>0, <2>3, <2>6, <2>10, <3>2 DEF LookedUp
    <3>. QED BY <1>1, <2>0, <2>8, <3>3, StaysForgotten
  <2>. QED BY <2>9, <2>10
<1>. QED BY <1>0, <1>5, <1>6, <1>7, DescendOutcome

LEMMA RespondForgets ==
  ASSUME IInv, DataTypes, NotRemembered, NEW r \in Requests, Respond(r)
  PROVE  NotRemembered'
<1>0. cache \in [Layers -> Lru] /\ now \in Nat /\ key[r] \in Keys \cup {NoKey} /\ Types
      /\ Interceptors + 1 \in 1..Interceptors + 1
  BY QosAssumption DEF DataTypes, IInv, Types
<1> DEFINE run == Len(ran) + 1
<1>1. run \in Nat /\ Answered(r, key[r], Interceptors + 1, cache, run)
  <2>1. Len(ran) \in Nat /\ Answered(r, key[r], Interceptors + 1, cache, Len(ran) + 1)
    BY <1>0, RespondTypes
  <2>. QED BY <2>1
<1>. HIDE DEF run
<1>2. \A j \in Layers : \A e \in Entries(cache'[j]) : e \in Entries(cache[j]) \/ e.key = key[r]
  <2>1. \A j \in Layers : j < Interceptors + 1 => \A e \in Entries(cache'[j]) :
           \/ e \in Entries(cache[j])
           \/ key[r] \in Keys /\ e = [key |-> key[r], run |-> run, expires |-> now + Ttl[j]]
    BY <1>0, <1>1, AnsweredRemembers
  <2>2. \A j \in Layers : j < Interceptors + 1
    BY QosAssumption DEF Layers
  <2>. QED BY <2>1, <2>2
<1>3. pc' = [pc EXCEPT ![r] = "done"] /\ UNCHANGED <<depth, key, now>> /\ pc[r] = "executing"
  BY DEF Respond, Answered
<1>. SUFFICES ASSUME NEW j \in Layers', NEW l \in Keys, NEW q \in Requests, HoldsLock(q, j, l)'
              PROVE  ~Live(cache[j], l)'
  BY DEF NotRemembered
<1>4. j \in Layers
  BY DEF Layers
<1>5. q # r /\ HoldsLock(q, j, l)
  BY <1>0, <1>3 DEF HoldsLock, Inside, Types
<1>6. l # key[r]
  <2>1. l = key[r] => HoldsLock(r, j, l)
    BY <1>3 DEF HoldsLock, Inside
  <2>. QED BY <1>4, <1>5, <2>1 DEF IInv, SingleFlight
<1>7. ~Live(cache[j], l)
  BY <1>4, <1>5 DEF NotRemembered
<1>8. \A e \in Entries(cache'[j]) : e.key = l => e \in Entries(cache[j])
  BY <1>2, <1>4, <1>6
<1>. QED BY <1>3, <1>4, <1>7, <1>8, StaysForgotten

LEMMA NotRememberedInductive ==
  ASSUME IInv, DataTypes, NotRemembered, [Next]_vars
  PROVE  NotRemembered'
<1>1. ASSUME NEW r \in Requests, Leaves(r) PROVE NotRemembered'
  <2>1. \A j \in Layers, l \in Keys, q \in Requests : HoldsLock(q, j, l)' => HoldsLock(q, j, l)
    BY <1>1 DEF Leaves, HoldsLock, Inside
  <2>. QED BY <1>1, <2>1 DEF Leaves, NotRemembered, Live, Expired, Layers
<1>2. CASE TimePasses
  <2>. SUFFICES ASSUME NEW j \in Layers', NEW l \in Keys, NEW q \in Requests, HoldsLock(q, j, l)'
                PROVE  ~Live(cache[j], l)'
    BY DEF NotRemembered
  <2>1. j \in Layers /\ HoldsLock(q, j, l)
    BY <1>2 DEF TimePasses, HoldsLock, Inside, Layers
  <2>2. ~Live(cache[j], l)
    BY <2>1 DEF NotRemembered
  <2>. QED BY <1>2, <2>1, <2>2, StaysForgotten DEF TimePasses
<1>. QED BY <1>1, <1>2, EntersForgets, RespondForgets, StepKinds DEF IInv

(* A request runs the method only behind the lock of the first interceptor,*)
(* or past it in this step.                                                *)
LEMMA NoRunStep ==
  ASSUME IInv, DataTypes, NotRemembered, [Next]_vars, NEW r \in Requests,
         starts'[r] # starts[r], key'[r] # NoKey
  PROVE  ~Live(cache[1], key'[r])
<1>0. cache \in [Layers -> Lru] /\ Interceptors \in Nat \ {0} /\ Types
  BY QosAssumption DEF DataTypes, IInv
<1>1. PICK q \in Requests : \E k, i, mine, waiters : Enters(q, k, i, mine, waiters)
  BY <1>0, StepKinds DEF Respond, Leaves, TimePasses
<1>2. PICK k, i, mine, waiters : Enters(q, k, i, mine, waiters)
  BY <1>1
<1>3. DescendRuns(q, k, i, mine, waiters)
  BY <1>0, <1>2, DescendOutcome DEF Enters, DescendAnswered, DescendWaits
<1>4. q = r /\ key'[r] = k /\ k \in Keys
  BY <1>0, <1>2, <1>3 DEF DescendRuns, DataTypes, Enters, Types
<1>5. CASE 1 < i
  <2>1. 1 \in Layers
    BY <1>0 DEF Layers
  <2>2. HoldsLock(r, 1, k)
    BY <1>2, <1>4, <1>5, <2>1 DEF Enters, HoldsLock
  <2>. QED BY <1>4, <2>1, <2>2 DEF NotRemembered
<1>6. CASE ~(1 < i)
  <2>1. 1 \in i..Interceptors
    BY <1>0, <1>2, <1>6 DEF Enters
  <2>. QED BY <1>3, <1>4, <2>1 DEF DescendRuns, Passes
<1>. QED BY <1>5, <1>6

LEMMA TypesAndCaches == Spec => [](IInv /\ DataTypes /\ NotRemembered)
<1>1. Init => NotRemembered
  BY DEF Init, NotRemembered, HoldsLock, Inside
<1>2. IInv /\ DataTypes /\ NotRemembered /\ [Next]_vars => NotRemembered'
  BY NotRememberedInductive
<1>3. IInv => Types
  BY DEF IInv
<1>. QED BY <1>1, <1>2, <1>3, InitInvariant, NextInvariant, InitTypes, NextTypes, PTL DEF Spec

(* The method is not run for a key whose answer the first cache holds,     *)
(* however old the lookup is that sent the request to wait for the lock.   *)
THEOREM NoRunWhileRememberedHolds == Spec => NoRunWhileRemembered
<1>1. IInv /\ DataTypes /\ NotRemembered /\ [Next]_vars =>
        [\A r \in Requests :
           starts'[r] # starts[r] /\ key'[r] # NoKey => ~Live(cache[1], key'[r])]_vars
  BY NoRunStep
<1>. QED BY <1>1, TypesAndCaches, PTL DEF Spec, NoRunWhileRemembered
-----------------------------------------------------------------------------
(* Answers *)

(* Every answer, given or remembered, is that of a run; each run has one   *)
(* request, which it answered; and no cache keeps the answer of a run for  *)
(* longer than it and the caches further in may.                           *)
AnswersKnown ==
  /\ \A r \in Requests : pc[r] = "idle" => key[r] = NoKey
  /\ \A r \in Requests : pc[r] = "done" => reply[r].run \in DOMAIN ran
  /\ \A r \in Requests : pc[r] # "done" => reply[r] = NoReply
  /\ \A n \in DOMAIN ran : /\ pc[ran[n].request] = "done" /\ reply[ran[n].request].run = n
                           /\ ran[n].at <= now
  /\ \A i \in Layers : \A e \in Entries(cache[i]) :
       e.run \in DOMAIN ran /\ e.expires <= ran[e.run].at + Kept[i]

AInv == AnswersKnown /\ AnswersAreFresh

LEMMA RunShape ==
  ASSUME DataTypes
  PROVE  /\ Len(ran) \in Nat /\ DOMAIN ran = 1..Len(ran)
         /\ \A n \in DOMAIN ran : ran[n].request \in Requests /\ ran[n].at \in Nat
<1>1. ran \in Seq([request : Requests, at : 0..MaxTime])
  BY DEF DataTypes
<1>2. \A n \in DOMAIN ran : ran[n] \in [request : Requests, at : 0..MaxTime]
  BY <1>1, ElementOfSeq, LenProperties
<1>. QED BY <1>1, <1>2, LenProperties, QosAssumption

LEMMA InitAnswers == Init => AInv
<1>. SUFFICES ASSUME Init PROVE AInv
  OBVIOUS
<1>1. \A i \in Layers : Entries(cache[i]) = {}
  BY DEF Init, Entries
<1>. QED BY <1>1 DEF Init, AInv, AnswersKnown, AnswersAreFresh

(* The answer of a live entry is younger than the caches may keep it, and  *)
(* a cache further out that remembers it now does not keep it too long.    *)
LEMMA PassedOnInTime ==
  ASSUME DataTypes, AnswersKnown, NEW last \in Layers, NEW k, Live(cache[last], k),
         NEW run, run = Entry(cache[last], k).run
  PROVE  /\ run \in DOMAIN ran
         /\ now - ran[run].at < Kept[1]
         /\ \A j \in Layers : j < last => now + Ttl[j] <= ran[run].at + Kept[j]
<1> DEFINE e == Entry(cache[last], k)
<1>0. Interceptors \in Nat \ {0} /\ now \in Nat /\ last \in 1..Interceptors + 1
      /\ cache[last] \in Lru /\ 1 \in 1..Interceptors + 1
  BY QosAssumption DEF DataTypes, Layers
<1>1. e \in Entries(cache[last]) /\ ~Expired(e) /\ e \in Answer
  BY <1>0, LiveEntries, LruShape
<1>2. run = e.run /\ run \in DOMAIN ran /\ e.expires <= ran[run].at + Kept[last]
      /\ e.expires \in Nat /\ ~(e.expires <= now)
  BY <1>1 DEF AnswersKnown, Expired, Answer
<1>. HIDE DEF e
<1>3. ran[run].at \in Nat
  BY <1>2, RunShape
<1>4. Kept \in [1..Interceptors + 1 -> Nat] /\ Kept[last] \in Nat /\ Kept[1] \in Nat
  BY <1>0, KeptSums
<1>5. Kept[last] <= Kept[1]
  <2>1. last \in 1..Interceptors + 1
    BY <1>0
  <2>. QED BY <1>0, <2>1, KeptGrows
<1>6. ASSUME NEW j \in Layers, j < last PROVE now + Ttl[j] <= ran[run].at + Kept[j]
  <2>1. j + 1 \in 1..Interceptors + 1 /\ last \in j + 1..Interceptors + 1 /\ j \in 1..Interceptors + 1
    BY <1>0, <1>6 DEF Layers
  <2>2. Kept[last] <= Kept[j + 1]
    BY <2>1, KeptGrows
  <2>3. Kept[j] = Ttl[j] + Kept[j + 1]
    BY KeptSums
  <2>4. Ttl[j] \in Nat /\ Kept[j + 1] \in Nat /\ Kept[j] \in Nat
    BY <1>4, <2>1, QosAssumption DEF Layers
  <2>5. now <= ran[run].at + Kept[last]
    BY <1>0, <1>2, <1>3, <1>4
  <2>6. now <= ran[run].at + Kept[j + 1]
    BY <1>0, <1>3, <1>4, <2>2, <2>4, <2>5
  <2>. QED BY <1>0, <1>3, <2>3, <2>4, <2>6
<1>. QED BY <1>0, <1>2, <1>3, <1>4, <1>5, <1>6

LEMMA EntersAnswers ==
  ASSUME IInv, DataTypes, AInv, NEW r \in Requests, NEW k, NEW i, NEW mine, NEW waiters,
         Enters(r, k, i, mine, waiters)
  PROVE  AInv'
<1>0. /\ Descend(r, k, i, mine, waiters) /\ key' = [key EXCEPT ![r] = k]
      /\ i \in 1..Interceptors + 1 /\ k \in Keys \cup {NoKey}
      /\ cache \in [Layers -> Lru] /\ Interceptors \in Nat /\ Types
      /\ now \in Nat /\ pc[r] \in {"idle", "waiting", "backoff"}
  BY QosAssumption DEF Enters, DataTypes, IInv
<1>1. UNCHANGED <<now, ran>>
  BY <1>0, DescendOutcome
<1>2. \A q \in Requests \ {r} : key'[q] = key[q]
  BY <1>0 DEF Types
<1>3. \A n \in DOMAIN ran : ran[n].request # r /\ ran[n].request \in Requests
  BY <1>0, RunShape DEF AInv, AnswersKnown
<1>4. ASSUME UNCHANGED reply, LookedUp(cache', k), pc'[r] \in {"executing", "waiting"},
             \A q \in Requests \ {r} : pc'[q] = pc[q]
      PROVE  AInv'
  <2>1. \A j \in Layers : \A e \in Entries(cache'[j]) : e \in Entries(cache[j])
    BY <1>4 DEF LookedUp
  <2>2. \A j \in Layers' : \A e \in Entries(cache'[j]) :
          e.run \in DOMAIN ran' /\ e.expires <= ran'[e.run].at + Kept[j]
    BY <1>1, <2>1 DEF AInv, AnswersKnown, Layers
  <2>3. AnswersKnown'
    BY <1>0, <1>1, <1>2, <1>3, <1>4, <2>2 DEF AInv, AnswersKnown, NoReply
  <2>4. AnswersAreFresh'
    BY <1>1, <1>4 DEF AInv, AnswersAreFresh
  <2>. QED BY <2>3, <2>4 DEF AInv
<1>5. CASE DescendRuns(r, k, i, mine, waiters)
  BY <1>0, <1>4, <1>5 DEF DescendRuns, Types
<1>6. ASSUME NEW last \in i..Interceptors, DescendWaits(r, k, i, mine, waiters, last)
      PROVE  AInv'
  BY <1>0, <1>4, <1>6 DEF DescendWaits, Types
<1>7. ASSUME NEW last \in i..Interceptors, DescendAnswered(r, k, i, mine, waiters, last)
      PROVE  AInv'
  <2> DEFINE run == Entry(cache[last], k).run
  <2>0. last \in Layers /\ last \in 1..Interceptors + 1 /\ Live(cache[last], k)
    BY <1>0, <1>7 DEF Layers, DescendAnswered
  <2>1. PICK seen : LookedUp(seen, k) /\ Answered(r, k, last, seen, run)
    BY <1>7 DEF DescendAnswered
  <2>2. /\ run \in DOMAIN ran
        /\ now - ran[run].at < Kept[1]
        /\ \A j \in Layers : j < last => now + Ttl[j] <= ran[run].at + Kept[j]
    BY <2>0, PassedOnInTime DEF AInv
  <2>. HIDE DEF run
  <2>3. run \in Nat /\ seen \in [Layers -> Lru]
    BY <2>1, <2>2, RunShape DEF LookedUp
  <2>4. /\ pc' = [pc EXCEPT ![r] = "done"]
        /\ reply' = [reply EXCEPT ![r] = [run |-> run, at |-> now]]
    BY <2>1 DEF Answered
  <2>5. /\ \A j \in Layers : ~(j < last) => cache'[j] = seen[j]
        /\ \A j \in Layers : j < last => \A e \in Entries(cache'[j]) :
             \/ e \in Entries(seen[j]) /\ e.key # k
             \/ k \in Keys /\ e = [key |-> k, run |-> run, expires |-> now + Ttl[j]]
    BY <1>0, <2>0, <2>1, <2>3, AnsweredRemembers
  <2>6. ASSUME NEW j \in Layers, NEW e \in Entries(cache'[j])
        PROVE  e.run \in DOMAIN ran /\ e.expires <= ran[e.run].at + Kept[j]
    <3>1. CASE e \in Entries(seen[j])
      <4>1. e \in Entries(cache[j])
        BY <2>1, <3>1 DEF LookedUp
      <4>. QED BY <4>1 DEF AInv, AnswersKnown
    <3>2. CASE j < last /\ e = [key |-> k, run |-> run, expires |-> now + Ttl[j]]
      BY <2>2, <3>2
    <3>. QED BY <2>5, <2>6, <3>1, <3>2
  <2>7. /\ pc'[r] = "done" /\ reply'[r] = [run |-> run, at |-> now]
        /\ \A q \in Requests \ {r} : pc'[q] = pc[q] /\ reply'[q] = reply[q]
    BY <2>4, <1>0 DEF Types, DataTypes
  <2>8. AnswersKnown'
    <3>1. \A n \in DOMAIN ran' : /\ pc'[ran'[n].request] = "done" /\ reply'[ran'[n].request].run = n
                                 /\ ran'[n].at <= now'
      BY <1>1, <1>3, <2>7 DEF AInv, AnswersKnown
    <3>2. \A j \in Layers' : \A e \in Entries(cache'[j]) :
            e.run \in DOMAIN ran' /\ e.expires <= ran'[e.run].at + Kept[j]
      BY <1>1, <2>6 DEF Layers
    <3>3. \A q \in Requests : /\ pc'[q] = "done" => reply'[q].run \in DOMAIN ran'
                              /\ pc'[q] # "done" => reply'[q] = NoReply
                              /\ pc'[q] = "idle" => key'[q] = NoKey
      BY <1>1, <1>2, <2>2, <2>7 DEF AInv, AnswersKnown
    <3>. QED BY <3>1, <3>2, <3>3 DEF AnswersKnown, NoReply
  <2>9. AnswersAreFresh'
    BY <1>1, <2>2, <2>7 DEF AInv, AnswersAreFresh
  <2>. QED BY <2>8, <2>9 DEF AInv
<1>. QED BY <1>0, <1>5, <1>6, <1>7, DescendOutcome

LEMMA RespondAnswers ==
  ASSUME Types, DataTypes, AInv, NEW r \in Requests, Respond(r)
  PROVE  AInv'
<1> DEFINE run == Len(ran) + 1
<1>0. /\ cache \in [Layers -> Lru] /\ now \in Nat /\ key[r] \in Keys \cup {NoKey}
      /\ Interceptors \in Nat \ {0} /\ Interceptors + 1 \in 1..Interceptors + 1
      /\ pc[r] = "executing" /\ UNCHANGED <<key, now>>
  BY QosAssumption DEF DataTypes, Types, Respond
<1>1. /\ Len(ran) \in Nat /\ DOMAIN ran = 1..Len(ran)
      /\ DOMAIN ran' = 1..run
      /\ ran'[run] = [request |-> r, at |-> now]
      /\ \A n \in DOMAIN ran : ran'[n] = ran[n]
      /\ Answered(r, key[r], Interceptors + 1, cache, run)
  BY RespondTypes
<1>2. run \in Nat /\ run \in DOMAIN ran' /\ DOMAIN ran' = DOMAIN ran \cup {run} /\ run \notin DOMAIN ran
  BY <1>1
<1>. HIDE DEF run
<1>3. /\ pc'[r] = "done" /\ reply'[r] = [run |-> run, at |-> now]
      /\ \A q \in Requests \ {r} : pc'[q] = pc[q] /\ reply'[q] = reply[q]
  BY <1>1 DEF Answered, Types, DataTypes
<1>4. \A j \in Layers : \A e \in Entries(cache'[j]) :
        \/ e \in Entries(cache[j])
        \/ e = [key |-> key[r], run |-> run, expires |-> now + Ttl[j]]
  <2>1. \A j \in Layers : j < Interceptors + 1 => \A e \in Entries(cache'[j]) :
           \/ e \in Entries(cache[j]) /\ e.key # key[r]
           \/ key[r] \in Keys /\ e = [key |-> key[r], run |-> run, expires |-> now + Ttl[j]]
    <3>1. /\ cache \in [Layers -> Lru] /\ now \in Nat /\ key[r] \in Keys \cup {NoKey}
          /\ Interceptors + 1 \in 1..Interceptors + 1
      BY <1>0
    <3>2. Answered(r, key[r], Interceptors + 1, cache, run) /\ run \in Nat
      BY <1>1, <1>2
    <3>. QED BY <3>1, <3>2, AnsweredRemembers
  <2>2. \A j \in Layers : j < Interceptors + 1
    BY <1>0 DEF Layers
  <2>. QED BY <2>1, <2>2
<1>5. ASSUME NEW j \in Layers, NEW e \in Entries(cache'[j])
      PROVE  e.run \in DOMAIN ran' /\ e.expires <= ran'[e.run].at + Kept[j]
  <2>1. CASE e \in Entries(cache[j])
    BY <1>1, <1>2, <2>1 DEF AInv, AnswersKnown
  <2>2. CASE e = [key |-> key[r], run |-> run, expires |-> now + Ttl[j]]
    <3>1. Kept[j] = Ttl[j] + Kept[j + 1] /\ Kept[j + 1] \in Nat /\ Ttl[j] \in Nat /\ Kept[j] \in Nat
      BY <1>0, KeptSums, QosAssumption DEF Layers
    <3>. QED BY <1>0, <1>1, <1>2, <2>2, <3>1
  <2>. QED BY <1>4, <2>1, <2>2
<1>6. \A n \in DOMAIN ran : ran[n].request # r /\ ran[n].request \in Requests
  BY <1>0, RunShape DEF AInv, AnswersKnown
<1>7. AnswersKnown'
  <2>1. ASSUME NEW n \in DOMAIN ran'
        PROVE  /\ pc'[ran'[n].request] = "done" /\ reply'[ran'[n].request].run = n
               /\ ran'[n].at <= now'
    <3>1. CASE n = run
      BY <1>0, <1>1, <1>3, <3>1
    <3>2. CASE n \in DOMAIN ran
      BY <1>0, <1>1, <1>3, <1>6, <3>2 DEF AInv, AnswersKnown
    <3>. QED BY <1>2, <3>1, <3>2
  <2>2. \A j \in Layers' : \A e \in Entries(cache'[j]) :
          e.run \in DOMAIN ran' /\ e.expires <= ran'[e.run].at + Kept[j]
    BY <1>5 DEF Layers
  <2>3. \A q \in Requests : /\ pc'[q] = "done" => reply'[q].run \in DOMAIN ran'
                            /\ pc'[q] # "done" => reply'[q] = NoReply
                            /\ pc'[q] = "idle" => key'[q] = NoKey
    BY <1>0, <1>2, <1>3 DEF AInv, AnswersKnown
  <2>. QED BY <2>1, <2>2, <2>3 DEF AnswersKnown, NoReply
<1>8. AnswersAreFresh'
  <2>1. ASSUME NEW q \in Requests, q # r, pc'[q] = "done"
        PROVE  \/ ran'[reply'[q].run].request = q
               \/ reply'[q].at - ran'[reply'[q].run].at < Kept[1]
    <3>1. pc[q] = "done" /\ reply'[q] = reply[q]
      BY <1>3, <2>1
    <3>2. reply[q].run \in DOMAIN ran
      BY <3>1 DEF AInv, AnswersKnown
    <3>3. ran'[reply[q].run] = ran[reply[q].run]
      BY <1>1, <3>2
    <3>. QED BY <3>1, <3>3 DEF AInv, AnswersAreFresh
  <2>. QED BY <1>1, <1>3, <2>1 DEF AnswersAreFresh
<1>. QED BY <1>7, <1>8 DEF AInv

LEMMA AnswersInductive ==
  ASSUME IInv, DataTypes, AInv, [Next]_vars
  PROVE  AInv'
<1>0. Types
  BY DEF IInv
<1>1. ASSUME NEW r \in Requests, Leaves(r) PROVE AInv'
  <2>1. \A n \in DOMAIN ran : ran[n].request # r /\ ran[n].request \in Requests
    BY <1>1, RunShape DEF Leaves, Active, AInv, AnswersKnown
  <2>2. pc[r] # "done" /\ pc'[r] # "done" /\ pc'[r] # "idle"
    BY <1>1 DEF Leaves, Active
  <2>3. AnswersKnown'
    BY <1>1, <2>1, <2>2 DEF Leaves, AInv, AnswersKnown, NoReply, Layers
  <2>4. AnswersAreFresh'
    BY <1>1, <2>2 DEF Leaves, AInv, AnswersAreFresh
  <2>. QED BY <2>3, <2>4 DEF AInv
<1>2. CASE TimePasses
  <2>1. \A n \in DOMAIN ran : ran[n].at <= now'
    <3>1. now \in Nat /\ now' \in {now, now + 1}
      BY <1>2, QosAssumption DEF TimePasses, DataTypes
    <3>. QED BY <3>1, RunShape DEF AInv, AnswersKnown
  <2>2. AnswersKnown'
    BY <1>2, <2>1 DEF TimePasses, AInv, AnswersKnown, NoReply, Layers
  <2>3. AnswersAreFresh'
    BY <1>2 DEF TimePasses, AInv, AnswersAreFresh
  <2>. QED BY <2>2, <2>3 DEF AInv
<1>. QED BY <1>0, <1>1, <1>2, EntersAnswers, RespondAnswers, StepKinds

LEMMA AnswersHold == Spec => [](IInv /\ DataTypes /\ NotRemembered /\ AInv)
<1>1. IInv /\ DataTypes /\ NotRemembered /\ AInv /\ [Next]_vars => AInv'
  BY AnswersInductive
<1>. QED BY <1>1, InitAnswers, TypesAndCaches, PTL DEF Spec

(* The variables keep their types, the caches their size, and a request is *)
(* answered exactly if it is done.                                         *)
THEOREM TypeOKHolds == Spec => []TypeOK
<1>1. IInv /\ DataTypes /\ AInv => TypeOK
  <2>. SUFFICES ASSUME IInv, DataTypes, AInv PROVE TypeOK
    OBVIOUS
  <2>1. \A i \in Layers : Len(cache[i]) <= MaxSize
    BY LruShape DEF DataTypes
  <2>2. \A r \in Requests : (pc[r] = "done") = (reply[r].run \in DOMAIN ran)
    <3>1. 0 \notin DOMAIN ran
      BY RunShape
    <3>. QED BY <3>1 DEF AInv, AnswersKnown, NoReply
  <2>3. \A i \in Layers, k \in Keys : queue[i][k] \in Seq(Requests)
    BY DEF DataTypes, Queues
  <2>. QED BY <2>1, <2>2, <2>3 DEF TypeOK, IInv, Types, DataTypes
<1>. QED BY <1>1, AnswersHold, PTL

(* Nobody is given an answer older than the caches it passed can have kept *)
(* it, one after the other.                                                *)
THEOREM AnswersAreFreshHolds == Spec => []AnswersAreFresh
<1>1. AInv => AnswersAreFresh
  BY DEF AInv
<1>. QED BY <1>1, AnswersHold, PTL
-----------------------------------------------------------------------------
(* Idempotency is implemented *)

(* Each run has a request of its own: there are enough numbers for them.   *)
LEMMA NoMoreThanRequests ==
  ASSUME NEW n \in Nat, NEW f \in [1..n -> Requests], \A i, j \in 1..n : f[i] = f[j] => i = j
  PROVE  n <= Cardinality(Requests) /\ Cardinality(Requests) \in Nat
<1>1. f \in Injection(1..n, Requests)
  BY DEF Injection, IsInjective
<1>2. Cardinality(1..n) <= Cardinality(Requests)
  BY <1>1, QosAssumption, FS_Injection
<1>3. Cardinality(1..n) = n
  BY FS_Interval
<1>. QED BY <1>2, <1>3, QosAssumption, FS_CardinalityType

LEMMA RunsAreAnswers ==
  ASSUME NEW s \in Seq([request : Requests, at : 0..MaxTime]), NEW f,
         \A n \in DOMAIN s : f[s[n].request].run = n
  PROVE  \A n \in DOMAIN s : n \in Answers
<1> DEFINE g == [n \in 1..Len(s) |-> s[n].request]
<1>1. Len(s) \in Nat /\ DOMAIN s = 1..Len(s)
  BY LenProperties
<1>2. \A n \in 1..Len(s) : s[n] \in [request : Requests, at : 0..MaxTime]
  BY <1>1, ElementOfSeq
<1>3. g \in [1..Len(s) -> Requests]
  BY <1>2
<1>4. \A n \in 1..Len(s) : f[g[n]].run = n
  BY <1>1
<1>. HIDE DEF g
<1>5. \A i, j \in 1..Len(s) : g[i] = g[j] => i = j
  BY <1>4
<1>6. Len(s) <= Cardinality(Requests) /\ Cardinality(Requests) \in Nat
  BY <1>1, <1>3, <1>5, NoMoreThanRequests
<1>. QED BY <1>1, <1>6 DEF Answers

(* Entries of different keys are different: their number is the length.    *)
LEMMA SizeIsLength ==
  ASSUME NEW C \in Lru
  PROVE  IsFiniteSet(Entries(C)) /\ Cardinality(Entries(C)) = Len(C) /\ Len(C) \in Nat
<1> DEFINE f == [n \in 1..Len(C) |-> C[n]]
<1>1. /\ Len(C) \in Nat /\ DOMAIN C = 1..Len(C)
      /\ \A m, n \in DOMAIN C : C[m].key = C[n].key => m = n
  BY LruShape
<1>2. f \in [1..Len(C) -> Entries(C)]
  BY <1>1 DEF Entries
<1>3. \A m, n \in 1..Len(C) : f[m] = f[n] => m = n
  BY <1>1
<1>4. \A e \in Entries(C) : \E n \in 1..Len(C) : f[n] = e
  BY <1>1 DEF Entries
<1>. HIDE DEF f
<1>5. f \in Bijection(1..Len(C), Entries(C))
  BY <1>2, <1>3, <1>4 DEF Bijection, Injection, Surjection, IsInjective
<1>6. IsFiniteSet(1..Len(C)) /\ Cardinality(1..Len(C)) = Len(C)
  BY <1>1, FS_Interval
<1>7. IsFiniteSet(Entries(C)) /\ Cardinality(Entries(C)) = Cardinality(1..Len(C))
  <2>1. ExistsBijection(1..Len(C), Entries(C))
    BY <1>5 DEF ExistsBijection
  <2>. QED BY <1>6, <2>1, FS_Bijection
<1>. QED BY <1>1, <1>6, <1>7

(* What Idempotency lets go of H for an answer to k.                       *)
Evicts(H, k) ==
  IF Cardinality(H) >= MaxSize /\ \A e \in H : e.key # k THEN {{e} : e \in H} ELSE {{}}

(* set() after a lookup of the same key, which may have left D of C, makes *)
(* of the entries what Idempotency makes of the answers that are held.     *)
LEMMA SetEvicts ==
  ASSUME NEW C \in Lru, NEW D \in Lru, NEW e \in Answer, NEW k, e.key = k,
         \A f \in Entries(D) : f \in Entries(C),
         \A f \in Entries(C) : f.key # k => f \in Entries(D)
  PROVE  \E gone \in Evicts(Entries(C), k) :
           Entries(Set(D, e)) = {f \in Entries(C) \ gone : f.key # k} \cup {e}
<1>1. /\ IsFiniteSet(Entries(C)) /\ Cardinality(Entries(C)) = Len(C) /\ Len(C) \in Nat
      /\ Cardinality(Entries(D)) = Len(D) /\ Len(D) \in Nat /\ Len(C) <= MaxSize /\ MaxSize \in Nat
  BY SizeIsLength, LruShape, QosAssumption
<1>2. CASE \E f \in Entries(C) : f.key = k
  <2>1. Evicts(Entries(C), k) = {{}}
    BY <1>2 DEF Evicts
  <2>2. ASSUME \A f \in Entries(D) : f.key # k PROVE ~(Len(D) >= MaxSize)
    <3>1. PICK f \in Entries(C) : f.key = k
      BY <1>2
    <3>2. Entries(D) \subseteq Entries(C) \ {f}
      BY <2>2, <3>1
    <3>3. /\ IsFiniteSet(Entries(C) \ {f})
          /\ Cardinality(Entries(C) \ {f}) = Cardinality(Entries(C)) - 1
      BY <1>1, <3>1, FS_RemoveElement
    <3>4. Cardinality(Entries(D)) <= Cardinality(Entries(C) \ {f})
      BY <3>2, <3>3, FS_Subset
    <3>. QED BY <1>1, <3>3, <3>4
  <2>3. Entries(Set(D, e)) = {f \in Entries(D) : f.key # k} \cup {e}
    BY <2>2, SetRemembers
  <2>4. {f \in Entries(D) : f.key # k} = {f \in Entries(C) \ {} : f.key # k}
    OBVIOUS
  <2>. QED BY <2>1, <2>3, <2>4
<1>3. CASE \A f \in Entries(C) : f.key # k
  <2>1. Entries(D) = Entries(C)
    BY <1>3
  <2>2. Len(D) = Len(C)
    BY <1>1, <2>1
  <2>3. CASE Len(C) >= MaxSize
    <3>1. PICK g \in Entries(C) : Entries(Set(D, e)) = (Entries(C) \ {g}) \cup {e}
      BY <1>3, <2>1, <2>2, <2>3, SetRemembers
    <3>2. {g} \in Evicts(Entries(C), k)
      BY <1>1, <1>3, <2>3 DEF Evicts
    <3>3. Entries(C) \ {g} = {f \in Entries(C) \ {g} : f.key # k}
      BY <1>3
    <3>. QED BY <3>1, <3>2, <3>3
  <2>4. CASE ~(Len(C) >= MaxSize)
    <3>1. Entries(Set(D, e)) = Entries(C) \cup {e}
      BY <1>3, <2>1, <2>2, <2>4, SetRemembers
    <3>2. {} \in Evicts(Entries(C), k)
      BY <1>1, <2>4 DEF Evicts
    <3>3. Entries(C) = {f \in Entries(C) \ {} : f.key # k}
      BY <1>3
    <3>. QED BY <3>1, <3>2, <3>3
  <2>. QED BY <2>3, <2>4
<1>. QED BY <1>2, <1>3

(* A step that gives no answer is a step Ask, ...                          *)
LEMMA Asking ==
  ASSUME NEW r \in Requests, NEW k \in Keys \cup {NoKey},
         key[r] \in {NoKey, k}, key' = [key EXCEPT ![r] = k],
         \A e \in Entries(cache'[1]) : e \in Entries(cache[1]),
         \A e \in Entries(cache[1]) : e \notin Entries(cache'[1]) => e.key = k /\ Expired(e),
         Entries(cache[1]) \subseteq Answer, now \in Nat, UNCHANGED <<reply, now>>
  PROVE  OneAnswer!Next
<1>1. \A e \in Entries(cache[1]) : e.expires \in Nat
  BY DEF Answer
<1>2. \A e \in Entries(cache[1]) : Expired(e) => ~OneAnswer!Valid(e)
  BY <1>1 DEF Expired, OneAnswer!Valid
<1>3. OneAnswer!Ask(r, k)
  BY <1>2 DEF OneAnswer!Ask, OneAnswer!Asks, Entries
<1>. QED BY <1>3 DEF OneAnswer!Next

(* ... one that gives what the first cache remembers is a step Repeat, ... *)
LEMMA Repeating ==
  ASSUME NEW r \in Requests, NEW e \in Entries(cache[1]), e \in Answer, ~Expired(e), now \in Nat,
         key[r] \in {NoKey, e.key}, key' = [key EXCEPT ![r] = e.key], reply[r].run = 0,
         \A q \in Requests : reply'[q].run = IF q = r THEN e.run ELSE reply[q].run,
         Entries(cache'[1]) = Entries(cache[1]), UNCHANGED now
  PROVE  OneAnswer!Next
<1>1. [q \in Requests |-> reply'[q].run] = [[q \in Requests |-> reply[q].run] EXCEPT ![r] = e.run]
  OBVIOUS
<1>2. OneAnswer!Valid(e)
  <2>1. e.expires \in Nat
    BY DEF Answer
  <2>. QED BY <2>1 DEF Expired, OneAnswer!Valid
<1>3. OneAnswer!Repeat(r, e)
  BY <1>1, <1>2 DEF OneAnswer!Repeat, OneAnswer!Asks, OneAnswer!Gets, Entries
<1>. QED BY <1>3 DEF OneAnswer!Next, Entries

(* ... and one that gives another answer is a step Answer.                 *)
LEMMA Answering ==
  ASSUME NEW r \in Requests, NEW k \in Keys \cup {NoKey}, NEW run \in Answers,
         reply[r].run = 0, key[r] \in {NoKey, k}, key' = [key EXCEPT ![r] = k],
         \A q \in Requests : reply'[q].run = IF q = r THEN run ELSE reply[q].run,
         UNCHANGED now, now \in Nat, Entries(cache[1]) \subseteq Answer,
         k = NoKey => Entries(cache'[1]) = Entries(cache[1]),
         k # NoKey =>
           /\ \A e \in Entries(cache[1]) : e.key = k => Expired(e)
           /\ \E gone \in Evicts(Entries(cache[1]), k) :
                Entries(cache'[1]) = {e \in Entries(cache[1]) \ gone : e.key # k}
                                       \cup {[key |-> k, run |-> run, expires |-> now + Ttl[1]]}
  PROVE  OneAnswer!Next
<1>1. [q \in Requests |-> reply'[q].run] = [[q \in Requests |-> reply[q].run] EXCEPT ![r] = run]
  OBVIOUS
<1>2. ASSUME k # NoKey PROVE OneAnswer!Remember(k, run)
  <2>1. \A e \in Entries(cache[1]) : e.expires \in Nat
    BY DEF Answer
  <2>2. \A e \in Entries(cache[1]) : Expired(e) => ~OneAnswer!Valid(e)
    BY <2>1 DEF Expired, OneAnswer!Valid
  <2>3. \A S : OneAnswer!Cardinality(S) = Cardinality(S)
    BY DEF OneAnswer!Cardinality, Cardinality
  <2>4. OneAnswer!Evictions(k) = Evicts(Entries(cache[1]), k)
    BY <2>3 DEF OneAnswer!Evictions, Evicts, Entries
  <2>. QED BY <1>2, <2>2, <2>4 DEF OneAnswer!Remember, Entries
<1>3. OneAnswer!Answer(r, k, run)
  BY <1>1, <1>2 DEF OneAnswer!Answer, OneAnswer!Asks, OneAnswer!Gets, Entries
<1>. QED BY <1>3 DEF OneAnswer!Next

LEMMA EntersAgrees ==
  ASSUME IInv, DataTypes, DataTypes', NotRemembered, AInv, AInv', NEW r \in Requests,
         NEW k, NEW i, NEW mine, NEW waiters, Enters(r, k, i, mine, waiters)
  PROVE  OneAnswer!Next
<1>0. /\ Descend(r, k, i, mine, waiters) /\ key' = [key EXCEPT ![r] = k]
      /\ i \in 1..Interceptors + 1 /\ k \in Keys \cup {NoKey}
      /\ cache \in [Layers -> Lru] /\ Interceptors \in Nat \ {0} /\ Types /\ 1 \in Layers
      /\ now \in Nat /\ pc[r] \in {"idle", "waiting", "backoff"}
  BY QosAssumption DEF Enters, DataTypes, IInv, Layers
<1>1. UNCHANGED <<now, ran>>
  BY <1>0, DescendOutcome
<1>2. key[r] \in {NoKey, k} /\ reply[r].run = 0
  BY <1>0 DEF Enters, AInv, AnswersKnown, NoReply
<1>3. cache[1] \in Lru /\ Entries(cache[1]) \subseteq Answer
  BY <1>0, LruShape
<1>4. ASSUME UNCHANGED reply, LookedUp(cache', k) PROVE OneAnswer!Next
  <2>1. /\ \A e \in Entries(cache'[1]) : e \in Entries(cache[1])
        /\ \A e \in Entries(cache[1]) : e \notin Entries(cache'[1]) => e.key = k /\ Expired(e)
    BY <1>0, <1>4 DEF LookedUp
  <2>. QED BY <1>0, <1>1, <1>2, <1>3, <1>4, <2>1, Asking
<1>5. ASSUME NEW last \in i..Interceptors, DescendAnswered(r, k, i, mine, waiters, last)
      PROVE  OneAnswer!Next
  <2> DEFINE run == Entry(cache[last], k).run
  <2>0. last \in Layers /\ last \in 1..Interceptors + 1 /\ Live(cache[last], k)
    BY <1>0, <1>5 DEF Layers, DescendAnswered
  <2>1. PICK seen : LookedUp(seen, k) /\ Answered(r, k, last, seen, run)
    BY <1>5 DEF DescendAnswered
  <2>2. run \in Nat /\ run \in Answers /\ k \in Keys /\ k # NoKey
    <3>1. \A n \in DOMAIN ran : n \in Answers
      BY RunsAreAnswers DEF AInv, AnswersKnown, DataTypes
    <3>2. cache[last] \in Lru /\ Live(cache[last], k)
      BY <1>0, <2>0
    <3>3. k \in Keys /\ Entry(cache[last], k) \in Entries(cache[last])
      BY <3>2, LiveEntries
    <3>4. run \in DOMAIN ran
      BY <2>0, <3>3 DEF AInv, AnswersKnown
    <3>. QED BY <3>1, <3>3, <3>4, RunShape, QosAssumption
  <2>3. \A q \in Requests : reply'[q].run = IF q = r THEN run ELSE reply[q].run
    <3>1. reply' = [reply EXCEPT ![r] = [run |-> run, at |-> now]]
      BY <2>1 DEF Answered
    <3>. QED BY <3>1 DEF DataTypes
  <2>4. /\ seen[1] \in Lru
        /\ \A e \in Entries(seen[1]) : e \in Entries(cache[1])
        /\ \A e \in Entries(cache[1]) : e.key # k \/ ~Expired(e) => e \in Entries(seen[1])
    BY <1>0, <2>1 DEF LookedUp
  <2>5. cache'[1] = IF 1 < last THEN Remember(1, seen[1], k, run) ELSE seen[1]
    BY <1>0, <2>1 DEF Answered
  <2>6. CASE last = 1
    <3> DEFINE e == Entry(cache[1], k)
    <3>1. /\ e \in Entries(cache[1]) /\ e.key = k /\ ~Expired(e)
          /\ \A f \in Entries(cache[1]) : f.key = k => f = e
      BY <1>3, <2>0, <2>6, LiveEntries
    <3>2. e.run = run
      BY <2>6
    <3>. HIDE DEF e, run
    <3>3. Entries(cache'[1]) = Entries(cache[1])
      BY <2>4, <2>5, <2>6, <3>1
    <3>4. /\ key[r] \in {NoKey, e.key} /\ key' = [key EXCEPT ![r] = e.key]
          /\ \A q \in Requests : reply'[q].run = IF q = r THEN e.run ELSE reply[q].run
      BY <1>0, <1>2, <2>3, <3>1, <3>2
    <3>5. e \in Answer
      BY <1>3, <3>1
    <3>. QED BY <1>0, <1>1, <1>2, <3>1, <3>3, <3>4, <3>5, Repeating
  <2>7. CASE last # 1
    <3> DEFINE e == [key |-> k, run |-> run, expires |-> now + Ttl[1]]
    <3>0. 1 < last
      BY <1>0, <2>0, <2>7 DEF Layers
    <3>1. ~Live(cache[1], k)
      <4>1. CASE 1 < i
        <5>1. HoldsLock(r, 1, k)
          BY <1>0, <2>2, <4>1 DEF Enters, HoldsLock
        <5>. QED BY <1>0, <2>2, <5>1 DEF NotRemembered
      <4>2. CASE ~(1 < i)
        <5>1. 1 \in i..Interceptors
          BY <1>0, <4>2
        <5>. QED BY <1>5, <3>0, <5>1 DEF DescendAnswered, Passes
      <4>. QED BY <4>1, <4>2
    <3>2. \A f \in Entries(cache[1]) : f.key = k => Expired(f)
      BY <1>3, <3>1, LiveEntries
    <3>3. e \in Answer /\ e.key = k
      BY <1>0, <2>2, QosAssumption DEF Answer, Layers
    <3>4. cache'[1] = Set(seen[1], e)
      BY <2>2, <2>5, <3>0 DEF Remember
    <3>. HIDE DEF e, run
    <3>5. \E gone \in Evicts(Entries(cache[1]), k) :
            Entries(Set(seen[1], e)) = {f \in Entries(cache[1]) \ gone : f.key # k} \cup {e}
      BY <1>3, <2>4, <3>3, SetEvicts
    <3>6. \E gone \in Evicts(Entries(cache[1]), k) :
            Entries(cache'[1]) = {f \in Entries(cache[1]) \ gone : f.key # k}
                                   \cup {[key |-> k, run |-> run, expires |-> now + Ttl[1]]}
      BY <3>4, <3>5 DEF e
    <3>. QED BY <1>0, <1>1, <1>2, <1>3, <2>2, <2>3, <3>2, <3>6, Answering
  <2>. QED BY <2>6, <2>7
<1>. QED BY <1>0, <1>4, <1>5, DescendOutcome DEF DescendRuns, DescendWaits

LEMMA RespondAgrees ==
  ASSUME IInv, DataTypes, DataTypes', NotRemembered, AInv, AInv', NEW r \in Requests, Respond(r)
  PROVE  OneAnswer!Next
<1> DEFINE run == Len(ran) + 1
           k == key[r]
           e == [key |-> k, run |-> run, expires |-> now + Ttl[1]]
<1>0. /\ cache \in [Layers -> Lru] /\ now \in Nat /\ k \in Keys \cup {NoKey}
      /\ 1 \in Layers /\ 1 < Interceptors + 1 /\ pc[r] = "executing" /\ UNCHANGED <<key, now>>
  <2>1. k \in Keys \cup {NoKey}
    BY DEF IInv, Types
  <2>2. cache \in [Layers -> Lru] /\ now \in Nat
    BY QosAssumption DEF DataTypes
  <2>3. 1 < Interceptors + 1 /\ 1 \in Layers
    BY QosAssumption DEF Layers
  <2>4. pc[r] = "executing" /\ UNCHANGED <<key, now>>
    BY DEF Respond
  <2>. QED BY <2>1, <2>2, <2>3, <2>4
<1>1. /\ Len(ran) \in Nat /\ DOMAIN ran' = 1..run
      /\ Answered(r, k, Interceptors + 1, cache, run)
  BY RespondTypes DEF IInv
<1>2. run \in Nat /\ run \in DOMAIN ran'
  BY <1>1
<1>3. run \in Answers
  BY <1>2, RunsAreAnswers DEF AInv, AnswersKnown, DataTypes
<1>4. \A q \in Requests : reply'[q].run = IF q = r THEN run ELSE reply[q].run
  <2>1. reply' = [reply EXCEPT ![r] = [run |-> run, at |-> now]]
    BY <1>1 DEF Answered
  <2>. QED BY <2>1 DEF DataTypes
<1>5. cache'[1] = Remember(1, cache[1], k, run) /\ cache[1] \in Lru
  BY <1>0, <1>1 DEF Answered
<1>6. reply[r].run = 0 /\ key' = [key EXCEPT ![r] = k]
  BY <1>0 DEF AInv, AnswersKnown, NoReply, IInv, Types
<1>7. Entries(cache[1]) \subseteq Answer
  BY <1>5, LruShape
<1>8. k = NoKey => Entries(cache'[1]) = Entries(cache[1])
  BY <1>5 DEF Remember
<1>9. ASSUME k # NoKey
      PROVE  /\ \A f \in Entries(cache[1]) : f.key = k => Expired(f)
             /\ \E gone \in Evicts(Entries(cache[1]), k) :
                  Entries(cache'[1]) = {f \in Entries(cache[1]) \ gone : f.key # k} \cup {e}
  <2>1. k \in Keys /\ HoldsLock(r, 1, k)
    BY <1>0, <1>9 DEF HoldsLock, Inside
  <2>2. ~Live(cache[1], k)
    BY <1>0, <2>1 DEF NotRemembered
  <2>3. e \in Answer /\ e.key = k
    BY <1>0, <1>2, <2>1, QosAssumption DEF Answer, Layers
  <2>4. cache'[1] = Set(cache[1], e)
    BY <1>5, <1>9 DEF Remember
  <2>. HIDE DEF e, run, k
  <2>5. \A f \in Entries(cache[1]) : f.key = k => Expired(f)
    BY <1>5, <2>2, LiveEntries
  <2>6. \E gone \in Evicts(Entries(cache[1]), k) :
          Entries(Set(cache[1], e)) = {f \in Entries(cache[1]) \ gone : f.key # k} \cup {e}
    BY <1>5, <2>3, SetEvicts
  <2>. QED BY <2>4, <2>5, <2>6
<1>. HIDE DEF run, k
<1>10. k # NoKey =>
         /\ \A f \in Entries(cache[1]) : f.key = k => Expired(f)
         /\ \E gone \in Evicts(Entries(cache[1]), k) :
              Entries(cache'[1]) = {f \in Entries(cache[1]) \ gone : f.key # k}
                                     \cup {[key |-> k, run |-> run, expires |-> now + Ttl[1]]}
  BY <1>9
<1>11. key[r] \in {NoKey, k}
  BY DEF k
<1>. QED BY <1>0, <1>3, <1>4, <1>6, <1>7, <1>8, <1>10, <1>11, Answering

LEMMA StepAgrees ==
  ASSUME IInv, DataTypes, DataTypes', NotRemembered, AInv, AInv', [Next]_vars
  PROVE  OneAnswer!Next \/ UNCHANGED OneAnswer!vars
<1>1. ASSUME NEW r \in Requests, Leaves(r) PROVE UNCHANGED OneAnswer!vars
  BY <1>1 DEF Leaves, OneAnswer!vars
<1>2. ASSUME TimePasses PROVE OneAnswer!Next \/ UNCHANGED OneAnswer!vars
  <2>1. CASE now' = now
    BY <1>2, <2>1 DEF TimePasses, OneAnswer!vars
  <2>2. CASE now' = now + 1
    <3>1. OneAnswer!Tick
      BY <1>2, <2>2 DEF TimePasses, OneAnswer!Tick
    <3>. QED BY <3>1 DEF OneAnswer!Next
  <2>. QED BY <1>2, <2>1, <2>2 DEF TimePasses
<1>3. Types
  BY DEF IInv
<1>. QED BY <1>1, <1>2, <1>3, EntersAgrees, RespondAgrees, StepKinds

(* While the first cache remembers an answer, all requests with its key    *)
(* get it, and it is forgotten only when it has expired or when the cache  *)
(* is full and another key needs the room: Qos implements Idempotency.     *)
THEOREM AnswersAgreeHolds == Spec => AnswersAgree
<1>1. Init => OneAnswer!Init
  <2>1. Init => cache[1] = <<>>
    BY QosAssumption DEF Init, Layers
  <2>. QED BY <2>1 DEF Init, OneAnswer!Init, NoReply
<1> DEFINE J == IInv /\ DataTypes /\ NotRemembered /\ AInv
<1>2. J /\ J' /\ [Next]_vars => [OneAnswer!Next]_(OneAnswer!vars)
  BY StepAgrees
<1>. QED BY <1>1, <1>2, AnswersHold, PTL DEF Spec, AnswersAgree, OneAnswer!Spec
=============================================================================
