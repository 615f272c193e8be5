------------------------ MODULE HealthRegistryProofs ------------------------
(***************************************************************************)
(* For any instances, checkers and thresholds, and however the checks of   *)
(* the loop and of clients interleave: the counters of an entry and its    *)
(* status agree (StatusFollowsCounts of HealthRegistry), and an instance   *)
(* is marked UNHEALTHY only if it was down (NoFalseAlarm).                 *)
(*                                                                         *)
(* StatusFollowsCounts speaks of the cache alone, and only Checked writes  *)
(* it.  With the types of the four variables and of the answer in flight   *)
(* it is inductive.  NoFalseAlarm rests on NoPendingAlarm: the failures    *)
(* counted for an instance that was always up since its last success were  *)
(* under way at that success, each with a checker of its own other than    *)
(* the one that succeeded; so they are fewer than the checkers.            *)
(***************************************************************************)
EXTENDS HealthRegistry, TLAPS, FiniteSetTheorems

CacheTypes ==
  /\ status \in [Instances -> {"absent", "unknown", "healthy", "unhealthy"}]
  /\ successes \in [Instances -> 0..HealthyAfter]
  /\ failures \in [Instances -> 0..UnhealthyAfter]
  /\ last_check \in [Instances -> Results \cup {"none"}]

IInv == CacheTypes /\ StatusFollowsCounts

(* The two thresholds in use are at least one, whatever is configured.     *)
LEMMA Thresholds ==
  HealthyAfter \in Nat /\ HealthyAfter >= 1 /\ UnhealthyAfter \in Nat /\ UnhealthyAfter >= 1
BY HealthAssumption DEF HealthAssumption, HealthyAfter, UnhealthyAfter

(* The cache is empty at first (HealthAwareRegistry.__init__).             *)
LEMMA InitInvariant == Init => IInv
BY Thresholds DEF Init, IInv, CacheTypes, StatusFollowsCounts, Results

(* A result applied by whichever checker keeps the entry it updates and    *)
(* all others consistent (_check_instance).                                *)
LEMMA ApplyInvariant ==
  ASSUME NEW i \in Instances, NEW result \in Results, IInv, Apply(i, result)
  PROVE  IInv'
<1> USE Thresholds DEF IInv, CacheTypes, Results
<1>1. CASE result = "healthy"
  <2>1. /\ last_check' = [last_check EXCEPT ![i] = "healthy"]
        /\ successes' = [successes EXCEPT ![i] = IF @ < HealthyAfter THEN @ + 1 ELSE @]
        /\ failures' = [failures EXCEPT ![i] = 0]
        /\ status' = [status EXCEPT ![i] =
                        IF successes'[i] >= HealthyAfter THEN "healthy"
                        ELSE IF @ = "absent" THEN "unknown" ELSE @]
    BY <1>1 DEF Apply, Counted, Cleared, Judge
  <2>2. CacheTypes'
    BY <2>1
  <2>3. StatusFollowsCounts'
    BY <2>1 DEF StatusFollowsCounts
  <2>. QED BY <2>2, <2>3
<1>2. CASE result = "unhealthy"
  <2>1. /\ last_check' = [last_check EXCEPT ![i] = "unhealthy"]
        /\ failures' = [failures EXCEPT ![i] = IF @ < UnhealthyAfter THEN @ + 1 ELSE @]
        /\ successes' = [successes EXCEPT ![i] = 0]
        /\ status' = [status EXCEPT ![i] =
                        IF failures'[i] >= UnhealthyAfter THEN "unhealthy"
                        ELSE IF @ = "absent" THEN "unknown" ELSE @]
    BY <1>2 DEF Apply, Counted, Cleared, Judge
  <2>2. CacheTypes'
    BY <2>1
  <2>3. StatusFollowsCounts'
    BY <2>1 DEF StatusFollowsCounts
  <2>. QED BY <2>2, <2>3
<1>. QED BY <1>1, <1>2

(* Every other step leaves the cache alone.                                *)
LEMMA NextInvariant == IInv /\ [Next]_vars => IInv'
<1> SUFFICES ASSUME IInv, [Next]_vars PROVE IInv'
  OBVIOUS
<1>1. ASSUME NEW c \in Checkers, NEW i \in Instances, Checked(c, i) PROVE IInv'
  <2>1. check[c][i] \in Results /\ Apply(i, check[c][i])
    BY <1>1 DEF Checked
  <2>. QED BY <2>1, ApplyInvariant
<1>2. ASSUME UNCHANGED cache PROVE IInv'
  BY <1>2 DEF cache, IInv, CacheTypes, StatusFollowsCounts
<1>3. ASSUME NEW c \in Checkers, NEW i \in Instances, Answer(c, i) \/ Raises(c, i)
      PROVE  UNCHANGED cache
  BY <1>3 DEF Answer, Raises
<1>4. ASSUME NEW c \in Clients, Refresh(c) \/ Abandon(c) PROVE UNCHANGED cache
  BY <1>4 DEF Refresh, Abandon
<1>5. ASSUME NEW i \in Instances, Age(i) \/ Register(i) \/ Unregister(i) \/ Toggle(i)
      PROVE  UNCHANGED cache
  BY <1>5 DEF Age, Register, Unregister, Toggle
<1>6. CASE Pass \/ Start \/ Stop
  <2>1. UNCHANGED cache
    BY <1>6 DEF Pass, Start, Stop
  <2>. QED BY <2>1, <1>2
<1>7. CASE UNCHANGED vars
  BY <1>2, <1>7 DEF vars
<1>. QED BY <1>1, <1>2, <1>3, <1>4, <1>5, <1>6, <1>7 DEF Next

(* The status of every cached instance is the one whose threshold was      *)
(* reached last, whichever checkers applied the results.                   *)
THEOREM StatusCorrect == Spec => []StatusFollowsCounts
<1>1. IInv => StatusFollowsCounts
  BY DEF IInv
<1>. QED BY <1>1, InitInvariant, NextInvariant, PTL DEF Spec
-----------------------------------------------------------------------------
(* Types *)

RestTypes ==
  /\ registered \subseteq Instances
  /\ fresh \subseteq Instances
  /\ looping \in BOOLEAN
  /\ todo \subseteq DOMAIN Order
  /\ check \in [Checkers -> [Instances -> Results \cup {"none", "asked"}]]
  /\ up \in [Instances -> BOOLEAN]
  /\ down_since \in [Instances -> BOOLEAN]

Types == IInv /\ RestTypes

LEMMA InitRestTypes == Init => RestTypes
<1> SUFFICES ASSUME Init PROVE RestTypes
  OBVIOUS
<1>1. down_since \in [Instances -> BOOLEAN] /\ up \in [Instances -> BOOLEAN]
  <2>1. \A i \in Instances : (~up[i]) \in BOOLEAN
    OBVIOUS
  <2>. QED BY <2>1 DEF Init
<1>2. check \in [Checkers -> [Instances -> Results \cup {"none", "asked"}]]
  BY DEF Init
<1>. QED BY <1>1, <1>2 DEF Init, RestTypes

(* A result that is applied makes an instance fresh, and if it is a        *)
(* success, the instance counts as seen at work.                           *)
LEMMA CheckedChanges ==
  ASSUME Types, NEW c \in Checkers, NEW i \in Instances, Checked(c, i)
  PROVE  RestTypes'
<1>1. fresh' \subseteq Instances
  BY DEF Checked, Apply, Types, RestTypes
<1>2. todo' \subseteq DOMAIN Order
  BY DEF Checked, Types, RestTypes
<1>3. check' \in [Checkers -> [Instances -> Results \cup {"none", "asked"}]]
  BY DEF Checked, NextCheck, Types, RestTypes
<1>4. down_since' \in [Instances -> BOOLEAN]
  <2>1. UNCHANGED down_since \/ down_since' = [down_since EXCEPT ![i] = ~up[i]]
    BY DEF Checked, Apply
  <2>. QED BY <2>1 DEF Types, RestTypes
<1>. QED BY <1>1, <1>2, <1>3, <1>4 DEF Checked, Types, RestTypes

LEMMA RestTypesInductive == Types /\ [Next]_vars => RestTypes'
<1> SUFFICES ASSUME Types, [Next]_vars PROVE RestTypes'
  OBVIOUS
<1>0. RestTypes
  BY DEF Types
<1>1. ASSUME NEW c \in Checkers, NEW i \in Instances, Checked(c, i) PROVE RestTypes'
  BY <1>1, CheckedChanges
<1>2. ASSUME NEW c \in Checkers, NEW i \in Instances, Answer(c, i) PROVE RestTypes'
  <2>1. check' \in [Checkers -> [Instances -> Results \cup {"none", "asked"}]]
    BY <1>0, <1>2 DEF Answer, RestTypes, Results
  <2>. QED BY <1>0, <1>2, <2>1 DEF Answer, RestTypes
<1>3. ASSUME NEW c \in Checkers, NEW i \in Instances, Raises(c, i) PROVE RestTypes'
  <2>1. check' \in [Checkers -> [Instances -> Results \cup {"none", "asked"}]]
    BY <1>0, <1>3 DEF Raises, NextCheck, RestTypes
  <2>2. todo' \subseteq DOMAIN Order
    BY <1>0, <1>3 DEF Raises, RestTypes
  <2>. QED BY <1>0, <1>3, <2>1, <2>2 DEF Raises, RestTypes
<1>4. ASSUME NEW c \in Clients, Refresh(c) \/ Abandon(c) PROVE RestTypes'
  <2>1. check' \in [Checkers -> [Instances -> Results \cup {"none", "asked"}]]
    BY <1>0, <1>4 DEF Refresh, Abandon, Ask, RestTypes
  <2>. QED BY <1>0, <1>4, <2>1 DEF Refresh, Abandon, RestTypes
<1>5. ASSUME NEW i \in Instances, Age(i) \/ Register(i) \/ Unregister(i) PROVE RestTypes'
  BY <1>0, <1>5 DEF Age, Register, Unregister, RestTypes
<1>6. ASSUME NEW i \in Instances, Toggle(i) PROVE RestTypes'
  <2>1. up' \in [Instances -> BOOLEAN] /\ down_since' \in [Instances -> BOOLEAN]
    BY <1>0, <1>6 DEF Toggle, RestTypes
  <2>. QED BY <1>0, <1>6, <2>1 DEF Toggle, RestTypes
<1>7. CASE Pass \/ Start \/ Stop
  <2>1. check' \in [Checkers -> [Instances -> Results \cup {"none", "asked"}]]
    BY <1>0, <1>7 DEF Pass, Start, Stop, Ask, RestTypes
  <2>2. todo' \subseteq DOMAIN Order
    BY <1>0, <1>7 DEF Pass, Start, Stop, RestTypes
  <2>. QED BY <1>0, <1>7, <2>1, <2>2 DEF Pass, Start, Stop, RestTypes
<1>8. CASE UNCHANGED vars
  BY <1>0, <1>8 DEF vars, cache, RestTypes
<1>. QED BY <1>1, <1>2, <1>3, <1>4, <1>5, <1>6, <1>7, <1>8 DEF Next

LEMMA TypesHold == Spec => []Types
<1>1. Init => Types
  BY InitInvariant, InitRestTypes DEF Types
<1>2. Types /\ [Next]_vars => Types'
  BY NextInvariant, RestTypesInductive DEF Types
<1>. QED BY <1>1, <1>2, PTL DEF Spec

(* The variables keep their types; the counts stop at their thresholds.    *)
THEOREM TypeOKHolds == Spec => []TypeOK
<1>1. Types => TypeOK
  BY DEF Types, IInv, CacheTypes, RestTypes, TypeOK
<1>. QED BY <1>1, TypesHold, PTL
-----------------------------------------------------------------------------
(* False alarms *)

\* the checkers that are about to count a failure of i
Failing(i) == {c \in Checkers : check[c][i] = "unhealthy"}

(* An instance that is down counts as having been down; and for one that   *)
(* was not, the failures that are counted or may yet be are fewer than the *)
(* checkers.                                                               *)
NoPendingAlarm ==
  \A i \in Instances :
    /\ ~up[i] => down_since[i]
    /\ down_since[i] \/ failures[i] + Cardinality(Failing(i)) < Cardinality(Checkers)

LEMMA CheckersAreFinite ==
  /\ IsFiniteSet(Checkers) /\ Cardinality(Checkers) \in Nat
  /\ \A S \in SUBSET Checkers : /\ IsFiniteSet(S) /\ Cardinality(S) \in Nat
                                /\ \A c \in S : Cardinality(S \ {c}) = Cardinality(S) - 1
<1>1. IsFiniteSet(Checkers)
  BY HealthAssumption, FS_AddElement DEF Checkers
<1>2. \A S \in SUBSET Checkers : IsFiniteSet(S) /\ Cardinality(S) \in Nat
  BY <1>1, FS_Subset, FS_CardinalityType
<1>3. ASSUME NEW S \in SUBSET Checkers, NEW c \in S PROVE Cardinality(S \ {c}) = Cardinality(S) - 1
  BY <1>2, FS_RemoveElement
<1>. QED BY <1>1, <1>2, <1>3

LEMMA FewerFailing ==
  ASSUME NEW S \in SUBSET Checkers, NEW T, T \subseteq S
  PROVE  Cardinality(T) \in Nat /\ Cardinality(S) \in Nat /\ Cardinality(T) <= Cardinality(S)
BY CheckersAreFinite, FS_Subset, FS_CardinalityType

(* Nothing of an instance changes, or only that fewer failures are pending.*)
LEMMA StaysUnalarmed ==
  ASSUME Types, NoPendingAlarm, NEW i \in Instances,
         up'[i] = up[i], down_since'[i] = down_since[i], failures'[i] = failures[i],
         Failing(i)' \subseteq Failing(i)
  PROVE  /\ ~up'[i] => down_since'[i]
         /\ down_since'[i] \/ failures'[i] + Cardinality(Failing(i)') < Cardinality(Checkers)
<1>1. failures[i] \in Nat
  BY Thresholds DEF Types, IInv, CacheTypes
<1>2. Failing(i) \subseteq Checkers
  BY DEF Failing
<1>3. /\ Cardinality(Failing(i)') \in Nat /\ Cardinality(Failing(i)) \in Nat
      /\ Cardinality(Failing(i)') <= Cardinality(Failing(i))
  BY <1>2, FewerFailing
<1>. QED BY <1>1, <1>3, CheckersAreFinite DEF NoPendingAlarm

(* A result is applied: a success leaves no failure counted, and its own   *)
(* checker has none pending; a failure is counted, and no longer pending.  *)
LEMMA CheckedUnalarmed ==
  ASSUME Types, NoPendingAlarm, NEW c \in Checkers, NEW i \in Instances, Checked(c, i)
  PROVE  NoPendingAlarm'
<1>1. UNCHANGED up
  BY DEF Checked
<1>2. \A j \in Instances : Failing(j)' \subseteq Failing(j)
  BY DEF Checked, NextCheck, Failing, Types, RestTypes
<1>3. Failing(i)' \subseteq Failing(i) \ {c}
  BY <1>2 DEF Checked, NextCheck, Failing, Types, RestTypes
<1>4. ASSUME NEW j \in Instances, j # i
      PROVE  down_since'[j] = down_since[j] /\ failures'[j] = failures[j]
  BY <1>4 DEF Checked, Apply, Counted, Cleared, Types, RestTypes, IInv, CacheTypes
<1>5. /\ ~up'[i] => down_since'[i]
      /\ down_since'[i] \/ failures'[i] + Cardinality(Failing(i)') < Cardinality(Checkers)
  <2>1. CASE check[c][i] = "healthy"
    <3>0. down_since'[i] = (~up[i])
      BY <2>1 DEF Checked, Apply, Types, RestTypes
    <3>1. (~up[i] => down_since'[i]) /\ failures'[i] = 0
      BY <3>0, <2>1 DEF Checked, Apply, Cleared, Types, RestTypes, IInv, CacheTypes
    <3>2. Failing(i)' \subseteq Checkers \ {c}
      BY <1>3 DEF Failing
    <3>3. /\ Cardinality(Failing(i)') <= Cardinality(Checkers \ {c})
          /\ Cardinality(Failing(i)') \in Nat
          /\ Cardinality(Checkers \ {c}) = Cardinality(Checkers) - 1
      BY <3>2, FewerFailing, CheckersAreFinite
    <3>. QED BY <1>1, <3>1, <3>3, CheckersAreFinite
  <2>2. CASE check[c][i] = "unhealthy"
    <3>1. UNCHANGED down_since
      BY <2>2 DEF Checked, Apply
    <3>2. failures[i] \in Nat /\ failures'[i] \in Nat /\ failures'[i] <= failures[i] + 1
      <4>1. failures[i] \in Nat
        BY Thresholds DEF Types, IInv, CacheTypes
      <4>2. failures'[i] = IF failures[i] < UnhealthyAfter THEN failures[i] + 1 ELSE failures[i]
        BY <2>2 DEF Checked, Apply, Counted, Types, IInv, CacheTypes
      <4>. QED BY <4>1, <4>2
    <3>3. c \in Failing(i) /\ Failing(i) \subseteq Checkers
      BY <2>2 DEF Failing
    <3>4. /\ Cardinality(Failing(i)') <= Cardinality(Failing(i) \ {c})
          /\ Cardinality(Failing(i)') \in Nat
      BY <1>3, <3>3, FewerFailing
    <3>5. Cardinality(Failing(i) \ {c}) = Cardinality(Failing(i)) - 1 /\ Cardinality(Failing(i)) \in Nat
      BY <3>3, CheckersAreFinite
    <3>6. (~up[i] => down_since[i])
          /\ (down_since[i] \/ failures[i] + Cardinality(Failing(i)) < Cardinality(Checkers))
      BY DEF NoPendingAlarm
    <3>. QED BY <1>1, <3>1, <3>2, <3>4, <3>5, <3>6, CheckersAreFinite
  <2>. QED BY <2>1, <2>2 DEF Checked, Results
<1>6. ASSUME NEW j \in Instances, j # i
      PROVE  /\ ~up'[j] => down_since'[j]
             /\ down_since'[j] \/ failures'[j] + Cardinality(Failing(j)') < Cardinality(Checkers)
  BY <1>1, <1>2, <1>4, <1>6, StaysUnalarmed
<1>. QED BY <1>5, <1>6 DEF NoPendingAlarm

LEMMA NoPendingAlarmInductive == Types /\ NoPendingAlarm /\ [Next]_vars => NoPendingAlarm'
<1> SUFFICES ASSUME Types, NoPendingAlarm, [Next]_vars PROVE NoPendingAlarm'
  OBVIOUS
<1>1. ASSUME NEW c \in Checkers, NEW i \in Instances, Checked(c, i) PROVE NoPendingAlarm'
  BY <1>1, CheckedUnalarmed
<1>2. ASSUME NEW c \in Checkers, NEW i \in Instances, Answer(c, i) PROVE NoPendingAlarm'
  <2>1. UNCHANGED <<up, down_since, failures>>
    BY <1>2 DEF Answer, cache
  <2>2. ASSUME NEW j \in Instances, ~(j = i /\ ~up[i]) PROVE Failing(j)' \subseteq Failing(j)
    BY <1>2, <2>2 DEF Answer, Failing, Types, RestTypes
  <2>3. ASSUME NEW j \in Instances
        PROVE  /\ ~up'[j] => down_since'[j]
               /\ down_since'[j] \/ failures'[j] + Cardinality(Failing(j)') < Cardinality(Checkers)
    <3>1. CASE j = i /\ ~up[i]
      BY <2>1, <3>1 DEF NoPendingAlarm
    <3>2. CASE ~(j = i /\ ~up[i])
      BY <2>1, <2>2, <3>2, StaysUnalarmed
    <3>. QED BY <3>1, <3>2
  <2>. QED BY <2>3 DEF NoPendingAlarm
<1>3. ASSUME NEW j \in Instances, Toggle(j) PROVE NoPendingAlarm'
  <2>1. UNCHANGED <<check, failures>>
    BY <1>3 DEF Toggle, cache
  <2>2. \A i \in Instances : Failing(i)' = Failing(i)
    BY <2>1 DEF Failing
  <2>3. \A i \in Instances : (~up'[i] => down_since'[i]) /\ (~down_since'[i] => ~down_since[i])
    BY <1>3 DEF Toggle, Types, RestTypes, NoPendingAlarm
  <2>. QED BY <2>1, <2>2, <2>3 DEF NoPendingAlarm
<1>4. ASSUME UNCHANGED <<up, down_since, failures>>,
             \A i \in Instances : Failing(i)' \subseteq Failing(i)
      PROVE  NoPendingAlarm'
  BY <1>4, StaysUnalarmed DEF NoPendingAlarm
<1>5. ASSUME NEW c \in Checkers, NEW i \in Instances, Raises(c, i) PROVE NoPendingAlarm'
  <2>1. UNCHANGED <<up, down_since, failures>>
    BY <1>5 DEF Raises, cache
  <2>2. \A j \in Instances : Failing(j)' \subseteq Failing(j)
    BY <1>5 DEF Raises, NextCheck, Failing, Types, RestTypes
  <2>. QED BY <1>4, <2>1, <2>2
<1>6. ASSUME NEW c \in Clients, Refresh(c) \/ Abandon(c) PROVE NoPendingAlarm'
  <2>1. UNCHANGED <<up, down_since, failures>>
    BY <1>6 DEF Refresh, Abandon, cache
  <2>2. \A j \in Instances : Failing(j)' \subseteq Failing(j)
    BY <1>6 DEF Refresh, Abandon, Ask, Failing, Types, RestTypes
  <2>. QED BY <1>4, <2>1, <2>2
<1>7. ASSUME NEW i \in Instances, Age(i) \/ Register(i) \/ Unregister(i) PROVE NoPendingAlarm'
  <2>1. UNCHANGED <<up, down_since, failures, check>>
    BY <1>7 DEF Age, Register, Unregister, cache
  <2>. QED BY <1>4, <2>1 DEF Failing
<1>8. CASE Pass \/ Start \/ Stop
  <2>1. UNCHANGED <<up, down_since, failures>>
    BY <1>8 DEF Pass, Start, Stop, cache
  <2>2. \A j \in Instances : Failing(j)' \subseteq Failing(j)
    BY <1>8 DEF Pass, Start, Stop, Ask, Failing, Types, RestTypes
  <2>. QED BY <1>4, <2>1, <2>2
<1>9. CASE UNCHANGED vars
  <2>1. UNCHANGED <<up, down_since, failures, check>>
    BY <1>9 DEF vars, cache
  <2>. QED BY <1>4, <2>1 DEF Failing
<1>. QED BY <1>1, <1>2, <1>3, <1>5, <1>6, <1>7, <1>8, <1>9 DEF Next

LEMMA NoPendingAlarmInitially == Init => NoPendingAlarm
<1> SUFFICES ASSUME Init PROVE NoPendingAlarm
  OBVIOUS
<1>1. ASSUME NEW i \in Instances
      PROVE  /\ ~up[i] => down_since[i]
             /\ down_since[i] \/ failures[i] + Cardinality(Failing(i)) < Cardinality(Checkers)
  <2>1. Failing(i) = {}
    BY DEF Init, Failing
  <2>2. Cardinality(Failing(i)) = 0
    BY <2>1, FS_EmptySet
  <2>3. Cardinality(Checkers \ {Loop}) \in Nat
        /\ Cardinality(Checkers \ {Loop}) = Cardinality(Checkers) - 1
    <3>1. Loop \in Checkers
      BY DEF Checkers
    <3>. QED BY <3>1, CheckersAreFinite
  <2>4. ~up[i] => down_since[i]
    BY DEF Init
  <2>5. failures[i] = 0
    BY DEF Init
  <2>. QED BY <2>2, <2>3, <2>4, <2>5, CheckersAreFinite
<1>. QED BY <1>1 DEF NoPendingAlarm

(* Only an answer that reaches the threshold marks an instance UNHEALTHY,  *)
(* and if the instance was never down, there are enough checkers for that. *)
LEMMA AlarmIsTrue ==
  ASSUME Types, NoPendingAlarm, [Next]_vars, NEW i \in Instances,
         status[i] # "unhealthy", status'[i] = "unhealthy"
  PROVE  down_since[i] \/ Cardinality(Checkers) > UnhealthyAfter
<1>1. ASSUME NEW c \in Checkers, NEW j \in Instances, Checked(c, j)
      PROVE  down_since[i] \/ Cardinality(Checkers) > UnhealthyAfter
  <2>1. check[c][j] = "unhealthy" /\ j = i
    BY <1>1 DEF Checked, Apply, Judge, Types, IInv, CacheTypes
  <2>2. UNCHANGED down_since /\ failures'[i] >= UnhealthyAfter
    BY <1>1, <2>1 DEF Checked, Apply, Judge, Types, IInv, CacheTypes
  <2>3. NoPendingAlarm'
    BY <1>1, CheckedUnalarmed
  <2>4. IInv'
    BY NextInvariant DEF Types
  <2>5. failures'[i] \in Nat
    BY <2>4, Thresholds DEF IInv, CacheTypes, UnhealthyAfter
  <2>6. Failing(i)' \subseteq Checkers
    BY DEF Failing
  <2>7. Cardinality(Failing(i)') \in Nat
    BY <2>6, CheckersAreFinite
  <2>8. down_since[i] \/ failures'[i] + Cardinality(Failing(i)') < Cardinality(Checkers)
    BY <2>2, <2>3 DEF NoPendingAlarm
  <2>. QED BY <2>2, <2>5, <2>7, <2>8, Thresholds, CheckersAreFinite
<1>2. ~UNCHANGED status
  OBVIOUS
<1>3. \A c \in Checkers, j \in Instances : ~Answer(c, j) /\ ~Raises(c, j)
  BY <1>2 DEF Answer, Raises, cache
<1>4. \A c \in Clients : ~Refresh(c) /\ ~Abandon(c)
  BY <1>2 DEF Refresh, Abandon, cache
<1>5. \A j \in Instances : ~Age(j) /\ ~Register(j) /\ ~Unregister(j) /\ ~Toggle(j)
  BY <1>2 DEF Age, Register, Unregister, Toggle, cache
<1>6. ~Pass /\ ~Start /\ ~Stop /\ ~UNCHANGED vars
  BY <1>2 DEF Pass, Start, Stop, vars, cache
<1>. QED BY <1>1, <1>3, <1>4, <1>5, <1>6 DEF Next

(* An instance is marked UNHEALTHY only if it was down at some time since  *)
(* it was last seen healthy, unless more checkers than unhealthy_threshold *)
(* are at work: delayed answers cannot outvote a newer success.            *)
THEOREM NoFalseAlarmHolds == Spec => NoFalseAlarm
<1>1. Types /\ NoPendingAlarm /\ [Next]_vars =>
        [\A i \in Instances :
           status[i] # "unhealthy" /\ status'[i] = "unhealthy" =>
             down_since[i] \/ Cardinality(Checkers) > UnhealthyAfter]_vars
  BY AlarmIsTrue
<1>. QED BY <1>1, TypesHold, NoPendingAlarmInitially, NoPendingAlarmInductive, PTL DEF Spec, NoFalseAlarm
=============================================================================
