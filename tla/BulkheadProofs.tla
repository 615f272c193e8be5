--------------------------- MODULE BulkheadProofs ---------------------------
(***************************************************************************)
(* For any callers and configuration of the bulkhead: its types, and that  *)
(* its slots and placeholders add up, whatever is refused, times out or is *)
(* cancelled.  The semaphore never gives out more slots than it has since  *)
(* at most n of the waiters have fewer than n before them, which rests on  *)
(* each of them being in the list once (Queued).                           *)
(***************************************************************************)
EXTENDS Bulkhead, TLAPS, FiniteSetTheorems, SequenceTheorems

Queued ==
  /\ \A i, j \in DOMAIN waiters : waiters[i] = waiters[j] => i = j
  /\ \A c \in Callers : pc[c] \in {"waiting", "granted"} => \E i \in DOMAIN waiters : waiters[i] = c

IInv == TypeOK /\ Queued /\ SlotsAddUp /\ PlaceholdersAddUp

LEMMA Configuration ==
  /\ IsFiniteSet(Callers)
  /\ MaxConcurrent \in Nat /\ MaxConcurrent >= 1
  /\ QueueDepth \in Nat
BY BulkheadAssumption DEF MaxConcurrent, QueueDepth, AtLeast

LEMMA PlacesFinite ==
  ASSUME NEW place
  PROVE  IsFiniteSet(In(place)) /\ Cardinality(In(place)) \in Nat
<1>1. In(place) \subseteq Callers
  BY DEF In
<1>. QED BY <1>1, Configuration, FS_Subset, FS_CardinalityType
-----------------------------------------------------------------------------
(* Waking *)

(* Those that wait stand in a line.                                        *)
LEMMA InLine ==
  ASSUME TypeOK, Queued, NEW c \in In("waiting"), NEW d \in In("waiting")
  PROVE  /\ ~Before(c, c)
         /\ c # d => Before(c, d) \/ Before(d, c)
         /\ \A e : Before(e, c) /\ Before(c, d) => Before(e, d)
<1>1. /\ c \in Callers /\ d \in Callers
      /\ pc[c] = "waiting" /\ pc[d] = "waiting"
  BY DEF In
<1>2. PICK i \in DOMAIN waiters : waiters[i] = c
  BY <1>1 DEF Queued
<1>3. PICK j \in DOMAIN waiters : waiters[j] = d
  BY <1>1 DEF Queued
<1>4. DOMAIN waiters \subseteq Int
  BY DEF TypeOK
<1>5. ~Before(c, c)
  BY <1>4 DEF Before, Queued
<1>6. c # d => Before(c, d) \/ Before(d, c)
  BY <1>2, <1>3, <1>4 DEF Before
<1>7. ASSUME NEW e, Before(e, c), Before(c, d) PROVE Before(e, d)
  <2>1. PICK i1, j1 \in DOMAIN waiters : i1 < j1 /\ waiters[i1] = e /\ waiters[j1] = c
    BY <1>7 DEF Before
  <2>2. PICK i2, j2 \in DOMAIN waiters : i2 < j2 /\ waiters[i2] = c /\ waiters[j2] = d
    BY <1>7 DEF Before
  <2>3. j1 = i2
    BY <2>1, <2>2 DEF Queued
  <2>4. i1 < j2
    BY <1>4, <2>1, <2>2, <2>3
  <2>. QED BY <2>1, <2>2, <2>4 DEF Before
<1>. QED BY <1>5, <1>6, <1>7

(* Waking n times grants at most n slots, to some that wait.               *)
LEMMA WakingIsBounded ==
  ASSUME TypeOK, Queued, NEW n \in Nat, NEW P, P \subseteq In("waiting")
  PROVE  /\ Woken(n, P) \subseteq P /\ IsFiniteSet(Woken(n, P))
         /\ Cardinality(Woken(n, P)) \in 0..n
<1> DEFINE ahead(c) == {d \in P : Before(d, c)}
           f == [c \in Woken(n, P) |-> Cardinality(ahead(c))]
<1>1. IsFiniteSet(P)
  BY PlacesFinite, FS_Subset
<1>2. ASSUME NEW c PROVE IsFiniteSet(ahead(c)) /\ Cardinality(ahead(c)) \in Nat
  <2>1. ahead(c) \subseteq P
    OBVIOUS
  <2>. HIDE DEF ahead
  <2>. QED BY <1>1, <2>1, FS_Subset, FS_CardinalityType
<1>3. Woken(n, P) = {c \in P : Cardinality(ahead(c)) < n}
  BY DEF Woken
<1>4. Woken(n, P) \subseteq P /\ IsFiniteSet(Woken(n, P))
  BY <1>1, <1>3, FS_Subset
<1>5. ASSUME NEW c \in P, NEW d \in P, Before(c, d)
      PROVE  Cardinality(ahead(c)) < Cardinality(ahead(d))
  <2>1. ahead(c) \subseteq ahead(d) /\ c \in ahead(d) /\ c \notin ahead(c)
    BY <1>5, InLine
  <2>. HIDE DEF ahead
  <2>2. /\ Cardinality(ahead(c)) <= Cardinality(ahead(d))
        /\ Cardinality(ahead(c)) # Cardinality(ahead(d))
    BY <1>2, <2>1, FS_Subset
  <2>. QED BY <1>2, <2>2
<1>6. f \in Injection(Woken(n, P), 0..n - 1)
  <2>1. ASSUME NEW c \in Woken(n, P) PROVE f[c] \in 0..n - 1
    <3>1. Cardinality(ahead(c)) \in Nat /\ Cardinality(ahead(c)) < n
      BY <1>2, <1>3
    <3>. HIDE DEF ahead
    <3>. QED BY <3>1
  <2>2. ASSUME NEW c \in Woken(n, P), NEW d \in Woken(n, P), f[c] = f[d] PROVE c = d
    <3>1. Cardinality(ahead(c)) = Cardinality(ahead(d))
          /\ Cardinality(ahead(c)) \in Nat
      BY <1>2, <2>2
    <3>2. c # d => Before(c, d) \/ Before(d, c)
      BY <1>4, InLine
    <3>. HIDE DEF ahead, f
    <3>. QED BY <1>4, <1>5, <3>1, <3>2
  <2>3. f \in [Woken(n, P) -> 0..n - 1]
    BY <2>1
  <2>. HIDE DEF f
  <2>. QED BY <2>2, <2>3 DEF Injection, IsInjective
<1>7. IsFiniteSet(0..n - 1) /\ Cardinality(0..n - 1) = n
  BY FS_Interval
<1>. HIDE DEF f
<1>8. Cardinality(Woken(n, P)) <= n
  BY <1>6, <1>7, FS_Injection
<1>. QED BY <1>4, <1>8, FS_CardinalityType

(* The list of waiters without one of them.                                *)
LEMMA WithoutOne ==
  ASSUME TypeOK, Queued, NEW c \in Callers, pc[c] \in {"waiting", "granted"}
  PROVE  /\ Without(c) \in Seq((In("waiting") \cup In("granted")) \ {c})
         /\ \A i, j \in DOMAIN Without(c) : Without(c)[i] = Without(c)[j] => i = j
         /\ \A d \in Callers \ {c} : (\E i \in DOMAIN waiters : waiters[i] = d)
               => \E j \in DOMAIN Without(c) : Without(c)[j] = d
<1> DEFINE line == In("waiting") \cup In("granted")
<1>1. waiters \in Seq(line) /\ Len(waiters) \in Nat /\ DOMAIN waiters = 1..Len(waiters)
  BY DEF TypeOK
<1>2. PICK k : k = At(c)
  OBVIOUS
<1>3. k \in DOMAIN waiters /\ waiters[k] = c
  BY <1>2 DEF At, Queued
<1>4. PICK n : n = Len(waiters) - 1
  OBVIOUS
<1>5. n \in Nat /\ k \in 1..n + 1
  BY <1>1, <1>3, <1>4
<1>6. Without(c) = [i \in 1..n |-> IF i < k THEN waiters[i] ELSE waiters[i + 1]]
  BY <1>2, <1>4 DEF Without
<1>. HIDE DEF line
<1>7. DOMAIN Without(c) = 1..n
  BY <1>6
<1>8. ASSUME NEW i \in 1..n PROVE Without(c)[i] \in line \ {c}
  <2>1. CASE i < k
    <3>1. i \in DOMAIN waiters /\ i # k
      BY <1>1, <1>4, <1>5, <2>1
    <3>. QED BY <1>1, <1>3, <1>6, <2>1, <3>1 DEF Queued
  <2>2. CASE ~(i < k)
    <3>1. i + 1 \in DOMAIN waiters /\ i + 1 # k
      BY <1>1, <1>4, <1>5, <2>2
    <3>. QED BY <1>1, <1>3, <1>6, <2>2, <3>1 DEF Queued
  <2>. QED BY <2>1, <2>2
<1>9. Without(c) \in Seq(line \ {c})
  <2>1. Without(c) \in [1..n -> line \ {c}]
    BY <1>6, <1>8
  <2>. QED BY <1>5, <2>1
<1>10. ASSUME NEW i \in 1..n, NEW j \in 1..n, Without(c)[i] = Without(c)[j] PROVE i = j
  <2>1. /\ i \in DOMAIN waiters /\ i + 1 \in DOMAIN waiters
        /\ j \in DOMAIN waiters /\ j + 1 \in DOMAIN waiters
    BY <1>1, <1>4, <1>5
  <2>2. \A x, y \in DOMAIN waiters : waiters[x] = waiters[y] => x = y
    BY DEF Queued
  <2>. QED BY <1>5, <1>6, <1>10, <2>1, <2>2
<1>11. ASSUME NEW i \in DOMAIN waiters, waiters[i] # c
       PROVE  \E j \in 1..n : Without(c)[j] = waiters[i]
  <2>1. i # k
    BY <1>3, <1>11
  <2>2. CASE i < k
    <3>1. i \in 1..n
      BY <1>1, <1>4, <1>5, <2>2
    <3>. QED BY <1>6, <2>2, <3>1
  <2>3. CASE i > k
    <3>1. i - 1 \in 1..n /\ ~(i - 1 < k) /\ (i - 1) + 1 = i
      BY <1>1, <1>4, <1>5, <2>3
    <3>. QED BY <1>6, <3>1
  <2>4. i < k \/ i > k
    BY <1>1, <1>5, <2>1
  <2>. QED BY <2>2, <2>3, <2>4
<1>. QED BY <1>7, <1>9, <1>10, <1>11 DEF line
-----------------------------------------------------------------------------
(* Counting *)

\* c goes to place and the woken are granted a slot
Moves(c, place, woken) ==
  pc' = [d \in Callers |-> IF d = c THEN place ELSE IF d \in woken THEN "granted" ELSE pc[d]]

One(condition) == IF condition THEN 1 ELSE 0

Counted(c, place, n) ==
  /\ Cardinality(In("waiting")') = Cardinality(In("waiting")) - n - One(pc[c] = "waiting")
  /\ Cardinality(In("granted")') = Cardinality(In("granted")) + n - One(pc[c] = "granted")
  /\ Cardinality(In("running")') = Cardinality(In("running"))
                                     + One(place = "running") - One(pc[c] = "running")

LEMMA MovesAreCounted ==
  ASSUME pc \in [Callers -> Places], NEW c \in Callers, NEW place \in {"idle", "running"},
         NEW woken, woken \subseteq In("waiting") \ {c}, IsFiniteSet(woken),
         Moves(c, place, woken), NEW n, n = Cardinality(woken)
  PROVE  Counted(c, place, n)
<1>0. /\ \A p : IsFiniteSet(In(p)) /\ Cardinality(In(p)) \in Nat
      /\ n \in Nat
  BY PlacesFinite, FS_CardinalityType
<1>1. Cardinality(In("waiting")') = Cardinality(In("waiting")) - n - One(pc[c] = "waiting")
  <2>1. In("waiting")' = (In("waiting") \ woken) \ {c}
    BY DEF Moves, In
  <2>2. /\ IsFiniteSet(In("waiting") \ woken)
        /\ Cardinality(In("waiting") \ woken) = Cardinality(In("waiting")) - n
    <3>1. In("waiting") \cap woken = woken
      OBVIOUS
    <3>. QED BY <1>0, <3>1, FS_Difference
  <2>3. c \in In("waiting") \ woken <=> pc[c] = "waiting"
    BY DEF In
  <2>4. Cardinality((In("waiting") \ woken) \ {c})
          = Cardinality(In("waiting") \ woken) - One(pc[c] = "waiting")
    <3>1. PICK S : S = In("waiting") \ woken
      OBVIOUS
    <3>2. /\ IsFiniteSet(S) /\ Cardinality(S) \in Nat
          /\ Cardinality(S \ {c}) = IF c \in S THEN Cardinality(S) - 1 ELSE Cardinality(S)
      BY <2>2, <3>1, FS_RemoveElement, FS_CardinalityType
    <3>. QED BY <2>3, <3>1, <3>2 DEF One
  <2>5. One(pc[c] = "waiting") \in Nat
    BY DEF One
  <2>. QED BY <1>0, <2>1, <2>2, <2>4, <2>5
<1>2. Cardinality(In("granted")') = Cardinality(In("granted")) + n - One(pc[c] = "granted")
  <2>1. In("granted")' = (In("granted") \cup woken) \ {c}
    BY DEF Moves, In
  <2>2. /\ IsFiniteSet(In("granted") \cup woken)
        /\ Cardinality(In("granted") \cup woken) = Cardinality(In("granted")) + n
    <3>1. In("granted") \cap woken = {}
      BY DEF In
    <3>2. Cardinality(In("granted") \cap woken) = 0
      BY <3>1, FS_EmptySet
    <3>. QED BY <1>0, <3>2, FS_Union
  <2>3. c \in In("granted") \cup woken <=> pc[c] = "granted"
    BY DEF In
  <2>4. Cardinality((In("granted") \cup woken) \ {c})
          = Cardinality(In("granted") \cup woken) - One(pc[c] = "granted")
    <3>1. PICK S : S = In("granted") \cup woken
      OBVIOUS
    <3>2. /\ IsFiniteSet(S) /\ Cardinality(S) \in Nat
          /\ Cardinality(S \ {c}) = IF c \in S THEN Cardinality(S) - 1 ELSE Cardinality(S)
      BY <2>2, <3>1, FS_RemoveElement, FS_CardinalityType
    <3>. QED BY <2>3, <3>1, <3>2 DEF One
  <2>5. One(pc[c] = "granted") \in Nat
    BY DEF One
  <2>6. Cardinality(In("granted")') = Cardinality(In("granted") \cup woken) - One(pc[c] = "granted")
    BY <2>1, <2>4
  <2>. QED BY <1>0, <2>2, <2>5, <2>6
<1>3. Cardinality(In("running")') = Cardinality(In("running"))
                                     + One(place = "running") - One(pc[c] = "running")
  <2>1. CASE place = "running"
    <3>1. In("running")' = In("running") \cup {c}
      BY <2>1 DEF Moves, In
    <3>2. c \in In("running") <=> pc[c] = "running"
      BY DEF In
    <3>. QED BY <1>0, <2>1, <3>1, <3>2, FS_AddElement DEF One
  <2>2. CASE place = "idle"
    <3>1. In("running")' = In("running") \ {c}
      BY <2>2 DEF Moves, In
    <3>2. c \in In("running") <=> pc[c] = "running"
      BY DEF In
    <3>. QED BY <1>0, <2>2, <3>1, <3>2, FS_RemoveElement DEF One
  <2>. QED BY <2>1, <2>2
<1>. QED BY <1>1, <1>2, <1>3 DEF Counted
-----------------------------------------------------------------------------
(* The actions *)

LEMMA InitInvariant == Init => IInv
<1> SUFFICES ASSUME Init PROVE IInv
  OBVIOUS
<1>1. In("waiting") = {} /\ In("granted") = {} /\ In("running") = {}
  BY DEF Init, In
<1>2. Cardinality({}) = 0
  BY FS_EmptySet
<1>3. TypeOK
  <2>1. pc \in [Callers -> Places]
    BY DEF Init, Places, Outside
  <2>2. waiters \in Seq(In("waiting") \cup In("granted"))
    BY DEF Init
  <2>. QED BY <2>1, <2>2, Configuration DEF Init, TypeOK
<1>4. Queued
  BY DEF Init, Queued
<1>5. SlotsAddUp /\ PlaceholdersAddUp
  <2>1. Cardinality(In("waiting")) = 0 /\ Cardinality(In("granted")) = 0 /\ Cardinality(In("running")) = 0
    BY <1>1, <1>2
  <2>2. value = MaxConcurrent /\ items = 0 /\ active = 0 /\ lost = 0 /\ MaxConcurrent \in Nat
    BY Configuration DEF Init
  <2>. QED BY <2>1, <2>2 DEF SlotsAddUp, PlaceholdersAddUp
<1>. QED BY <1>3, <1>4, <1>5 DEF IInv

(* A caller that neither waits nor runs has no part in the counts.         *)
LEMMA GotoInvariant ==
  ASSUME IInv, NEW c \in Callers, pc[c] \in {"idle", "refused", "putting"},
         NEW place \in {"idle", "refused", "putting"}, Goto(c, place)
  PROVE  IInv'
<1>1. pc' \in [Callers -> Places]
  BY DEF IInv, TypeOK, Goto, Places, Outside
<1>2. \A p \in {"waiting", "granted", "running"} : In(p)' = In(p)
  BY DEF IInv, TypeOK, Goto, In
<1>3. UNCHANGED <<waiters, value, items, active, lost>>
  BY DEF Goto
<1>4. TypeOK'
  BY <1>1, <1>2, <1>3 DEF IInv, TypeOK
<1>5. Queued'
  <2>1. \A d \in Callers : pc'[d] \in {"waiting", "granted"} => pc[d] \in {"waiting", "granted"}
    BY DEF IInv, TypeOK, Goto
  <2>. QED BY <1>3, <2>1 DEF IInv, Queued
<1>6. SlotsAddUp' /\ PlaceholdersAddUp'
  BY <1>2, <1>3 DEF IInv, SlotsAddUp, PlaceholdersAddUp
<1>. QED BY <1>4, <1>5, <1>6 DEF IInv

(* A placeholder goes into a queue with room.                              *)
LEMMA PutInvariant ==
  ASSUME IInv, NEW c \in Callers, pc[c] \in {"idle", "refused", "putting"}, ~QueueFull, Put(c)
  PROVE  IInv'
<1>0. /\ \A p : IsFiniteSet(In(p)) /\ Cardinality(In(p)) \in Nat
      /\ value \in Nat /\ items \in Nat /\ active \in Nat /\ lost \in Nat
      /\ pc \in [Callers -> Places]
      /\ waiters \in Seq(In("waiting") \cup In("granted"))
  BY PlacesFinite DEF IInv, TypeOK
<1>1. items' = items + 1 /\ lost' = lost /\ items' \in Nat /\ (QueueDepth > 0 => items' <= QueueDepth)
  BY <1>0, Configuration DEF Put, QueueFull
<1>2. c \notin In("waiting") /\ c \notin In("granted") /\ c \notin In("running")
  BY DEF In
<1>3. CASE Locked /\ waiters' = Append(waiters, c) /\ pc' = [pc EXCEPT ![c] = "waiting"]
           /\ UNCHANGED <<value, active>>
  <2>1. /\ In("waiting")' = In("waiting") \cup {c} /\ In("granted")' = In("granted")
        /\ In("running")' = In("running")
    BY <1>0, <1>2, <1>3 DEF In
  <2>2. Cardinality(In("waiting")') = Cardinality(In("waiting")) + 1
    BY <1>0, <1>2, <2>1, FS_AddElement
  <2>3. TypeOK'
    <3>1. pc' \in [Callers -> Places]
      BY <1>0, <1>3 DEF Places
    <3>2. waiters' \in Seq(In("waiting")' \cup In("granted")')
      <4>1. PICK S, T : S = In("waiting") \cup In("granted") /\ T = S \cup {c}
        OBVIOUS
      <4>2. waiters \in Seq(T) /\ c \in T
        BY <1>0, <4>1
      <4>3. Append(waiters, c) \in Seq(T)
        BY <4>2, AppendProperties
      <4>4. T = In("waiting")' \cup In("granted")'
        BY <2>1, <4>1
      <4>. QED BY <1>3, <4>3, <4>4
    <3>. QED BY <1>0, <1>1, <1>3, <3>1, <3>2 DEF TypeOK
  <2>4. Queued'
    <3>1. \A i \in DOMAIN waiters : waiters[i] # c
      BY <1>0, <1>2
    <3>2. \A i, j \in DOMAIN waiters : waiters[i] = waiters[j] => i = j
      BY DEF IInv, Queued
    <3>3. /\ DOMAIN waiters' = DOMAIN waiters \cup {Len(waiters) + 1}
          /\ waiters'[Len(waiters) + 1] = c
          /\ \A i \in DOMAIN waiters : waiters'[i] = waiters[i]
      BY <1>0, <1>3, AppendProperties
    <3>4. \A i, j \in DOMAIN waiters' : waiters'[i] = waiters'[j] => i = j
      BY <3>1, <3>2, <3>3
    <3>5. ASSUME NEW d \in Callers, pc'[d] \in {"waiting", "granted"}
          PROVE  \E i \in DOMAIN waiters' : waiters'[i] = d
      <4>1. CASE d = c
        BY <3>3, <4>1
      <4>2. CASE d # c
        <5>1. pc[d] \in {"waiting", "granted"}
          BY <1>0, <1>3, <3>5, <4>2
        <5>2. PICK i \in DOMAIN waiters : waiters[i] = d
          BY <5>1 DEF IInv, Queued
        <5>. QED BY <3>3, <5>2
      <4>. QED BY <4>1, <4>2
    <3>. QED BY <3>4, <3>5 DEF Queued
  <2>5. SlotsAddUp' /\ PlaceholdersAddUp'
    BY <1>0, <1>1, <1>3, <2>1, <2>2 DEF IInv, SlotsAddUp, PlaceholdersAddUp
  <2>. QED BY <2>3, <2>4, <2>5 DEF IInv
<1>4. CASE ~Locked /\ value' = value - 1 /\ active' = active + 1
           /\ pc' = [pc EXCEPT ![c] = "running"] /\ UNCHANGED waiters
  <2>1. /\ In("waiting")' = In("waiting") /\ In("granted")' = In("granted")
        /\ In("running")' = In("running") \cup {c}
    BY <1>0, <1>2, <1>4 DEF In
  <2>2. Cardinality(In("running")') = Cardinality(In("running")) + 1
    BY <1>0, <1>2, <2>1, FS_AddElement
  <2>3. TypeOK'
    <3>1. pc' \in [Callers -> Places]
      BY <1>0, <1>4 DEF Places
    <3>2. value' \in Nat /\ active' \in Nat
      BY <1>0, <1>4 DEF Locked
    <3>. QED BY <1>0, <1>1, <1>4, <2>1, <3>1, <3>2 DEF TypeOK
  <2>4. Queued'
    <3>1. \A d \in Callers : pc'[d] \in {"waiting", "granted"} => pc[d] \in {"waiting", "granted"}
      BY <1>0, <1>4
    <3>. QED BY <1>4, <3>1 DEF IInv, Queued
  <2>5. SlotsAddUp'
    <3>1. active' = Cardinality(In("running")')
      BY <1>4, <2>2 DEF IInv, SlotsAddUp
    <3>2. value' + Cardinality(In("granted")) + Cardinality(In("running")') = MaxConcurrent
      BY <1>0, <1>4, <2>2 DEF IInv, SlotsAddUp
    <3>. QED BY <2>1, <3>1, <3>2 DEF SlotsAddUp
  <2>6. PlaceholdersAddUp'
    <3>1. items' = Cardinality(In("waiting")) + Cardinality(In("granted")) + Cardinality(In("running")') + lost
      BY <1>0, <1>1, <2>2 DEF IInv, PlaceholdersAddUp
    <3>. QED BY <1>1, <2>1, <3>1 DEF PlaceholdersAddUp
  <2>. QED BY <2>3, <2>4, <2>5, <2>6 DEF IInv
<1>. QED BY <1>3, <1>4 DEF Put

(* The line of waiters when c leaves it, or releases a slot to it.         *)
LEMMA MovesKeepLine ==
  ASSUME TypeOK, Queued, NEW c \in Callers, NEW place \in {"idle", "running"},
         pc[c] \in {"waiting", "granted", "running"},
         NEW woken, woken \subseteq In("waiting") \ {c}, Moves(c, place, woken),
         waiters' = IF pc[c] = "running" THEN waiters ELSE Without(c)
  PROVE  /\ pc' \in [Callers -> Places]
         /\ waiters' \in Seq(In("waiting")' \cup In("granted")')
         /\ Queued'
<1>1. pc' \in [Callers -> Places]
  BY DEF Moves, TypeOK, Places, Outside
<1>2. In("waiting")' \cup In("granted")' = (In("waiting") \cup In("granted")) \ {c}
  BY DEF Moves, In
<1>3. \A d \in Callers : pc'[d] \in {"waiting", "granted"} => d # c /\ pc[d] \in {"waiting", "granted"}
  BY DEF Moves, In
<1>4. CASE pc[c] = "running"
  <2>1. (In("waiting") \cup In("granted")) \ {c} = In("waiting") \cup In("granted")
    BY <1>4 DEF In
  <2>. QED BY <1>1, <1>2, <1>3, <1>4, <2>1 DEF Queued, TypeOK
<1>5. CASE pc[c] # "running"
  <2>1. pc[c] \in {"waiting", "granted"} /\ waiters' = Without(c)
    BY <1>5
  <2>2. /\ Without(c) \in Seq((In("waiting") \cup In("granted")) \ {c})
        /\ \A i, j \in DOMAIN Without(c) : Without(c)[i] = Without(c)[j] => i = j
        /\ \A d \in Callers \ {c} : (\E i \in DOMAIN waiters : waiters[i] = d)
              => \E j \in DOMAIN Without(c) : Without(c)[j] = d
    BY <2>1, WithoutOne
  <2>3. \A d \in Callers : pc'[d] \in {"waiting", "granted"} => \E j \in DOMAIN Without(c) : Without(c)[j] = d
    BY <1>3, <2>2 DEF Queued
  <2>4. Queued'
    BY <2>1, <2>2, <2>3 DEF Queued
  <2>. QED BY <1>1, <1>2, <2>1, <2>2, <2>4
<1>. QED BY <1>4, <1>5

(* A caller that is granted a slot or gives up its place, and the waiters  *)
(* that are woken for it, keep the sums.                                   *)
LEMMA MovesKeepInvariant ==
  ASSUME IInv, NEW c \in Callers, NEW place \in {"idle", "running"},
         pc[c] \in {"waiting", "granted", "running"},
         NEW woken, woken \subseteq In("waiting") \ {c}, IsFiniteSet(woken), Moves(c, place, woken),
         waiters' = IF pc[c] = "running" THEN waiters ELSE Without(c),
         NEW n, n = Cardinality(woken), NEW back \in Nat, n <= back, value' = back - n,
         back = value + One(place = "idle" /\ pc[c] \in {"granted", "running"}),
         active' = active + One(place = "running") - One(pc[c] = "running"),
         place = "running" => pc[c] = "granted",
         items' = items - One(pc[c] = "running"), lost' = lost + One(place = "idle" /\ pc[c] # "running")
  PROVE  IInv'
<1>0. /\ \A p : IsFiniteSet(In(p)) /\ Cardinality(In(p)) \in Nat
      /\ value \in Nat /\ items \in Nat /\ active \in Nat /\ lost \in Nat /\ n \in Nat
      /\ QueueDepth > 0 => items <= QueueDepth
      /\ QueueDepth \in Nat
  BY PlacesFinite, FS_CardinalityType, Configuration DEF IInv, TypeOK
<1>1. /\ pc' \in [Callers -> Places]
      /\ waiters' \in Seq(In("waiting")' \cup In("granted")')
      /\ Queued'
  BY MovesKeepLine DEF IInv
<1>2. Counted(c, place, n)
  BY MovesAreCounted DEF IInv, TypeOK
<1>3. PICK w, g, r \in Nat :
        w = Cardinality(In("waiting")) /\ g = Cardinality(In("granted")) /\ r = Cardinality(In("running"))
  BY <1>0
<1>4. value + g + r = MaxConcurrent /\ active = r /\ items = w + g + r + lost
  BY <1>3 DEF IInv, SlotsAddUp, PlaceholdersAddUp
<1>5. pc[c] = "running" => r >= 1
  <2> SUFFICES ASSUME pc[c] = "running" PROVE r >= 1
    OBVIOUS
  <2>1. c \in In("running")
    BY DEF In
  <2>2. Cardinality(In("running")) # 0
    BY <1>0, <2>1, FS_EmptySet
  <2>. QED BY <1>3, <2>2
<1>6. SlotsAddUp' /\ PlaceholdersAddUp'
  <2>1. PICK w2, g2, r2 : /\ w2 = w - n - One(pc[c] = "waiting")
                          /\ g2 = g + n - One(pc[c] = "granted")
                          /\ r2 = r + One(place = "running") - One(pc[c] = "running")
    OBVIOUS
  <2>2. /\ w2 = Cardinality(In("waiting")') /\ g2 = Cardinality(In("granted")')
        /\ r2 = Cardinality(In("running")')
    BY <1>2, <1>3, <2>1 DEF Counted
  <2>3. value' + g2 + r2 = MaxConcurrent /\ active' = r2
    BY <1>0, <1>3, <1>4, <2>1 DEF One
  <2>4. items' = w2 + g2 + r2 + lost'
    <3>1. CASE pc[c] = "running"
      BY <1>0, <1>3, <1>4, <2>1, <3>1 DEF One
    <3>2. CASE pc[c] = "waiting"
      BY <1>0, <1>3, <1>4, <2>1, <3>2 DEF One
    <3>3. CASE pc[c] = "granted"
      BY <1>0, <1>3, <1>4, <2>1, <3>3 DEF One
    <3>. QED BY <3>1, <3>2, <3>3
  <2>. QED BY <2>2, <2>3, <2>4 DEF SlotsAddUp, PlaceholdersAddUp
<1>7. TypeOK'
  <2>1. value' \in Nat /\ lost' \in Nat
    BY <1>0 DEF One
  <2>2. items' \in Nat /\ active' \in Nat
    BY <1>0, <1>3, <1>4, <1>5 DEF One
  <2>3. items' <= items
    BY <1>0 DEF One
  <2>4. QueueDepth > 0 => items' <= QueueDepth
    BY <1>0, <2>2, <2>3
  <2>. QED BY <1>1, <2>1, <2>2, <2>4 DEF TypeOK
<1>. QED BY <1>1, <1>6, <1>7 DEF IInv

LEMMA NextInvariant == IInv /\ [Next]_vars => IInv'
<1> SUFFICES ASSUME IInv, [Next]_vars PROVE IInv'
  OBVIOUS
<1>0. TypeOK /\ Queued /\ value \in Nat /\ items \in Nat /\ active \in Nat /\ lost \in Nat
  BY DEF IInv, TypeOK
<1>1. ASSUME NEW c \in Callers, Call(c) PROVE IInv'
  <2>1. CASE QueueFull /\ Goto(c, "putting")
    BY <1>1, <2>1, GotoInvariant DEF Call, Outside
  <2>2. CASE ~QueueFull /\ Put(c)
    BY <1>1, <2>2, PutInvariant DEF Call, Outside
  <2>. QED BY <1>1, <2>1, <2>2 DEF Call
<1>2. ASSUME NEW c \in Callers, TryAcquire(c) PROVE IInv'
  <2>1. CASE Goto(c, "refused")
    BY <1>2, <2>1, GotoInvariant DEF TryAcquire, Outside
  <2>2. CASE ~QueueFull /\ Put(c)
    BY <1>2, <2>2, PutInvariant DEF TryAcquire, Outside
  <2>. QED BY <1>2, <2>1, <2>2 DEF TryAcquire
<1>3. ASSUME NEW c \in Callers, WokenPutter(c) PROVE IInv'
  BY <1>3, PutInvariant DEF WokenPutter
<1>4. ASSUME NEW c \in Callers, PutTimeout(c) \/ CancelPut(c) PROVE IInv'
  BY <1>4, GotoInvariant DEF PutTimeout, CancelPut
<1>5. ASSUME NEW c \in Callers, Resume(c) PROVE IInv'
  <2>1. PICK woken, n : woken = Woken(value, In("waiting")) /\ n = Cardinality(woken)
    OBVIOUS
  <2>2. woken \subseteq In("waiting") /\ IsFiniteSet(woken) /\ n \in 0..value
    BY <1>0, <2>1, WakingIsBounded
  <2>3. c \notin In("waiting") /\ pc[c] = "granted"
    BY <1>5 DEF Resume, In
  <2>4. /\ Moves(c, "running", woken) /\ waiters' = Without(c) /\ value' = value - n
        /\ active' = active + 1 /\ UNCHANGED <<items, lost>>
    BY <1>5, <2>1 DEF Resume, Moves
  <2>5. PICK back \in Nat : back = value
    BY <1>0
  <2>6. /\ n <= back /\ value' = back - n
        /\ back = value + One("running" = "idle" /\ pc[c] \in {"granted", "running"})
        /\ active' = active + One("running" = "running") - One(pc[c] = "running")
        /\ items' = items - One(pc[c] = "running")
        /\ lost' = lost + One("running" = "idle" /\ pc[c] # "running")
    BY <1>0, <2>2, <2>3, <2>4, <2>5 DEF One
  <2>. QED BY <2>1, <2>2, <2>3, <2>4, <2>6, MovesKeepInvariant
<1>6. ASSUME NEW c \in Callers, Finish(c) PROVE IInv'
  <2>1. PICK woken, n : woken = Woken(1, In("waiting")) /\ n = Cardinality(woken)
    OBVIOUS
  <2>2. woken \subseteq In("waiting") /\ IsFiniteSet(woken) /\ n \in 0..1
    BY <1>0, <2>1, WakingIsBounded
  <2>3. c \notin In("waiting") /\ pc[c] = "running"
    BY <1>6 DEF Finish, In
  <2>4. /\ Moves(c, "idle", woken) /\ waiters' = waiters /\ value' = value + 1 - n
        /\ active' = AtLeast(0, active - 1) /\ items' = AtLeast(0, items - 1) /\ UNCHANGED lost
    BY <1>6, <2>1 DEF Finish, Release, Moves
  <2>5. active >= 1 /\ items >= 1
    <3>1. /\ \A p : IsFiniteSet(In(p)) /\ Cardinality(In(p)) \in Nat
      BY PlacesFinite
    <3>2. c \in In("running")
      BY <2>3 DEF In
    <3>3. Cardinality(In("running")) # 0
      BY <3>1, <3>2, FS_EmptySet
    <3>. QED BY <1>0, <3>1, <3>3 DEF IInv, SlotsAddUp, PlaceholdersAddUp
  <2>6. PICK back \in Nat : back = value + 1
    BY <1>0
  <2>7. /\ n <= back /\ value' = back - n
        /\ back = value + One("idle" = "idle" /\ pc[c] \in {"granted", "running"})
        /\ active' = active + One("idle" = "running") - One(pc[c] = "running")
        /\ items' = items - One(pc[c] = "running")
        /\ lost' = lost + One("idle" = "idle" /\ pc[c] # "running")
    BY <1>0, <2>2, <2>3, <2>4, <2>5, <2>6 DEF One, AtLeast
  <2>. QED BY <2>1, <2>2, <2>3, <2>4, <2>7, MovesKeepInvariant
<1>7. ASSUME NEW c \in Callers, CancelWait(c) PROVE IInv'
  <2>0. pc[c] \in {"waiting", "granted"}
    BY <1>7 DEF CancelWait
  <2>1. PICK back \in Nat : back = IF pc[c] = "granted" THEN value + 1 ELSE value
    BY <1>0
  <2>2. PICK woken, n : woken = Woken(back, In("waiting") \ {c}) /\ n = Cardinality(woken)
    OBVIOUS
  <2>3. woken \subseteq In("waiting") \ {c} /\ IsFiniteSet(woken) /\ n \in 0..back
    BY <1>0, <2>2, WakingIsBounded
  <2>4. /\ Moves(c, "idle", woken) /\ waiters' = Without(c) /\ value' = back - n
        /\ lost' = lost + 1 /\ UNCHANGED <<items, active>>
    BY <1>7, <2>1, <2>2 DEF CancelWait, Moves
  <2>5. /\ n <= back
        /\ back = value + One("idle" = "idle" /\ pc[c] \in {"granted", "running"})
        /\ active' = active + One("idle" = "running") - One(pc[c] = "running")
        /\ items' = items - One(pc[c] = "running")
        /\ lost' = lost + One("idle" = "idle" /\ pc[c] # "running")
    BY <1>0, <2>0, <2>1, <2>3, <2>4 DEF One
  <2>. QED BY <2>0, <2>2, <2>3, <2>4, <2>5, MovesKeepInvariant
<1>8. CASE UNCHANGED vars
  BY <1>8 DEF vars, IInv, TypeOK, Queued, SlotsAddUp, PlaceholdersAddUp, In
<1>. QED BY <1>1, <1>2, <1>3, <1>4, <1>5, <1>6, <1>7, <1>8 DEF Next

(* The bulkhead keeps its invariant.                                      *)
THEOREM InvariantHolds == Spec => []IInv
<1>. QED BY InitInvariant, NextInvariant, PTL DEF Spec

(* The types; the semaphore is never below zero, and queue_depth holds.    *)
THEOREM TypeCorrect == Spec => []TypeOK
<1>1. IInv => TypeOK
  BY DEF IInv
<1>. QED BY <1>1, InvariantHolds, PTL

(* Every slot is free, granted or taken by a running call.                 *)
THEOREM SlotsCorrect == Spec => []SlotsAddUp
<1>1. IInv => SlotsAddUp
  BY DEF IInv
<1>. QED BY <1>1, InvariantHolds, PTL

(* Every placeholder is a caller's, or was left by a cancelled one.        *)
THEOREM PlaceholdersCorrect == Spec => []PlaceholdersAddUp
<1>1. IInv => PlaceholdersAddUp
  BY DEF IInv
<1>. QED BY <1>1, InvariantHolds, PTL
=============================================================================
