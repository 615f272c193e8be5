-------------------------- MODULE RateLimiterProofs --------------------------
(***************************************************************************)
(* For every rate, burst and number of ticks in a second: how many calls a *)
(* RateLimiter admits within a second (AdmissionsAreBounded), under each   *)
(* of its algorithms.  What each algorithm keeps is related to the ages of *)
(* the calls admitted lately, oldest first.                                *)
(*                                                                         *)
(* The lemmas have the configuration as a hypothesis, so that they can be  *)
(* used of the limiter of Resilience.                                      *)
(***************************************************************************)
EXTENDS RateLimiter, TLAPS, WellFoundedInduction, SequenceTheorems

LEMMA FunctionIsSeq ==
  ASSUME NEW k \in Nat, NEW S, NEW f \in [1..k -> S]
  PROVE  f \in Seq(S) /\ Len(f) = k
OBVIOUS

Ordered(ages) == \A i, j \in DOMAIN ages : i <= j => ages[i] >= ages[j]

(* Some of the oldest can be taken away, and the rest are then within the  *)
(* last second.                                                            *)
LEMMA OutdatedExists ==
  ASSUME Configured, NEW ages \in Seq(Nat)
  PROVE  /\ Outdated(ages) \in 0..Len(ages)
         /\ \A i \in 1..Outdated(ages) : ages[i] >= Second
         /\ Outdated(ages) < Len(ages) => ages[Outdated(ages) + 1] < Second
<1> DEFINE Young == {i \in 1..Len(ages) : ages[i] < Second}
           Good(n) == /\ \A i \in 1..n : ages[i] >= Second
                      /\ n < Len(ages) => ages[n + 1] < Second
<1>1. \E m \in 0..Len(ages) : Good(m)
  <2>1. CASE Young = {}
    <3>1. \A i \in 1..Len(ages) : ages[i] \in Nat /\ ~(ages[i] < Second)
      BY <2>1
    <3>2. Good(Len(ages))
      BY <3>1 DEF Configured
    <3>. QED BY <3>2
  <2>2. CASE Young # {}
    <3>1. Young \subseteq Nat
      OBVIOUS
    <3>2. PICK j \in Young : \A i \in Young : ~(<<i, j>> \in OpToRel(<, Nat))
      <4>. HIDE DEF Young
      <4>. QED BY <2>2, <3>1, WFMin, NatLessThanWellFounded
    <3>3. OpToRel(<, Nat) = {pair \in Nat \X Nat : pair[1] < pair[2]}
      BY DEF OpToRel
    <3>4. ASSUME NEW i \in 1..j - 1 PROVE ages[i] >= Second
      <4>1. i \in Nat /\ j \in Nat /\ i < j /\ i \in 1..Len(ages) /\ ages[i] \in Nat
        OBVIOUS
      <4>2. i \notin Young
        BY <3>2, <3>3, <4>1
      <4>. QED BY <4>1, <4>2 DEF Configured
    <3>5. j - 1 \in 0..Len(ages) /\ (j - 1) + 1 = j /\ ages[j] < Second
      OBVIOUS
    <3>6. Good(j - 1)
      BY <3>4, <3>5
    <3>. QED BY <3>5, <3>6
  <2>. QED BY <2>1, <2>2
<1>2. Outdated(ages) = CHOOSE n \in 0..Len(ages) : Good(n)
  BY DEF Outdated
<1>3. Outdated(ages) \in 0..Len(ages) /\ Good(Outdated(ages))
  <2>. HIDE DEF Good
  <2>. QED BY <1>1, <1>2
<1>. QED BY <1>3

(* Within keeps the calls of the last second, in their order.              *)
LEMMA WithinKeeps ==
  ASSUME Configured, NEW ages \in Seq(Nat), Ordered(ages)
  PROVE  /\ Within(ages) \in Seq(0..Second - 1)
         /\ Ordered(Within(ages))
         /\ Len(Within(ages)) = Len(ages) - Outdated(ages)
         /\ \A i \in DOMAIN Within(ages) : /\ Outdated(ages) + i \in DOMAIN ages
                                           /\ Within(ages)[i] = ages[Outdated(ages) + i]
         /\ \A i \in DOMAIN ages : ages[i] < Second => i > Outdated(ages)
<1> DEFINE n == Outdated(ages)
<1>1. /\ n \in 0..Len(ages)
      /\ \A i \in 1..n : ages[i] >= Second
      /\ n < Len(ages) => ages[n + 1] < Second
  BY OutdatedExists
<1>. HIDE DEF n
<1>2. Within(ages) = [i \in 1..Len(ages) - n |-> ages[n + i]]
  BY DEF Within, n
<1>3. \A i \in 1..Len(ages) - n : ages[n + i] \in Nat /\ ages[n + i] < Second
  <2>. TAKE i \in 1..Len(ages) - n
  <2>1. n < Len(ages) /\ n + 1 \in DOMAIN ages /\ n + i \in DOMAIN ages /\ n + 1 <= n + i
    BY <1>1
  <2>2. ages[n + 1] >= ages[n + i] /\ ages[n + 1] \in Nat /\ ages[n + i] \in Nat
    BY <2>1 DEF Ordered
  <2>. QED BY <1>1, <2>1, <2>2 DEF Configured
<1>4. Len(ages) - n \in Nat
  BY <1>1
<1>5. Within(ages) \in Seq(0..Second - 1) /\ Len(Within(ages)) = Len(ages) - n
  <2>1. \A i \in 1..Len(ages) - n : ages[n + i] \in 0..Second - 1
    BY <1>3 DEF Configured
  <2>2. Within(ages) \in [1..Len(ages) - n -> 0..Second - 1]
    BY <1>2, <2>1
  <2>. QED BY <1>4, <2>2, FunctionIsSeq
<1>6. Ordered(Within(ages))
  BY <1>1, <1>2, <1>4 DEF Ordered
<1>7. \A i \in DOMAIN Within(ages) : n + i \in DOMAIN ages /\ Within(ages)[i] = ages[n + i]
  BY <1>1, <1>2, <1>4
<1>8. \A i \in DOMAIN ages : ages[i] < Second => i > n
  <2>. SUFFICES ASSUME NEW i \in DOMAIN ages, ages[i] < Second, i <= n PROVE FALSE
    BY <1>1
  <2>. QED BY <1>1 DEF Configured
<1>. QED BY <1>5, <1>6, <1>7, <1>8 DEF n

(* There is one such number.                                               *)
LEMMA OutdatedUnique ==
  ASSUME Configured, NEW ages \in Seq(Nat), NEW n \in 0..Len(ages),
         \A i \in 1..n : ages[i] >= Second,
         n < Len(ages) => ages[n + 1] < Second
  PROVE  Outdated(ages) = n
<1> DEFINE m == Outdated(ages)
<1>1. /\ m \in 0..Len(ages)
      /\ \A i \in 1..m : ages[i] >= Second
      /\ m < Len(ages) => ages[m + 1] < Second
  BY OutdatedExists
<1>. HIDE DEF m
<1>2. CASE m < n
  <2>1. m + 1 \in 1..n /\ m + 1 \in 1..Len(ages) /\ m < Len(ages)
    BY <1>1, <1>2
  <2>2. ages[m + 1] \in Nat /\ ages[m + 1] >= Second /\ ages[m + 1] < Second
    BY <1>1, <2>1
  <2>. QED BY <2>2 DEF Configured
<1>3. CASE n < m
  <2>1. n + 1 \in 1..m /\ n + 1 \in 1..Len(ages) /\ n < Len(ages)
    BY <1>1, <1>3
  <2>2. ages[n + 1] \in Nat /\ ages[n + 1] >= Second /\ ages[n + 1] < Second
    BY <1>1, <2>1
  <2>. QED BY <2>2 DEF Configured
<1>4. m = n \/ m < n \/ n < m
  BY <1>1
<1>. QED BY <1>2, <1>3, <1>4 DEF m

(* Nothing is taken from calls of the last second.                         *)
LEMMA WithinRecent ==
  ASSUME Configured, NEW ages \in Seq(0..Second - 1)
  PROVE  Within(ages) = ages
<1>1. ages \in Seq(Nat) /\ \A i \in 1..Len(ages) : ages[i] \in Nat /\ ages[i] < Second
  BY DEF Configured
<1>2. Outdated(ages) = 0
  BY <1>1, OutdatedUnique
<1>3. Within(ages) = [i \in 1..Len(ages) |-> ages[i]]
  BY <1>2 DEF Within
<1>. QED BY <1>3

Older(ages) == [i \in DOMAIN ages |-> ages[i] + 1]
OlderUpTo(ages) == [i \in DOMAIN ages |-> Least(Second, ages[i] + 1)]

LEMMA OlderKeeps ==
  ASSUME Configured, NEW ages \in Seq(Nat), Ordered(ages)
  PROVE  /\ Older(ages) \in Seq(Nat) /\ Len(Older(ages)) = Len(ages) /\ Ordered(Older(ages))
         /\ OlderUpTo(ages) \in Seq(0..Second) /\ Len(OlderUpTo(ages)) = Len(ages)
         /\ Ordered(OlderUpTo(ages))
<1>1. DOMAIN ages = 1..Len(ages) /\ Len(ages) \in Nat /\ \A i \in DOMAIN ages : ages[i] \in Nat
  OBVIOUS
<1>2. Older(ages) \in [1..Len(ages) -> Nat] /\ OlderUpTo(ages) \in [1..Len(ages) -> 0..Second]
  BY <1>1 DEF Older, OlderUpTo, Least, Configured
<1>3. Ordered(Older(ages)) /\ Ordered(OlderUpTo(ages))
  <2>1. /\ DOMAIN Older(ages) = DOMAIN ages /\ DOMAIN OlderUpTo(ages) = DOMAIN ages
        /\ \A i \in DOMAIN ages : /\ Older(ages)[i] = ages[i] + 1
                                  /\ OlderUpTo(ages)[i] = Least(Second, ages[i] + 1)
    BY DEF Older, OlderUpTo
  <2>2. ASSUME NEW a \in Nat, NEW b \in Nat, a >= b
        PROVE  a + 1 >= b + 1 /\ Least(Second, a + 1) >= Least(Second, b + 1)
    BY <2>2 DEF Least, Configured
  <2>3. ASSUME NEW i \in DOMAIN ages, NEW j \in DOMAIN ages, i <= j
        PROVE  Older(ages)[i] >= Older(ages)[j] /\ OlderUpTo(ages)[i] >= OlderUpTo(ages)[j]
    <3>1. ages[i] \in Nat /\ ages[j] \in Nat /\ ages[i] >= ages[j]
      BY <1>1, <2>3 DEF Ordered
    <3>. QED BY <2>1, <2>2, <3>1
  <2>. QED BY <2>1, <2>3 DEF Ordered
<1>. QED BY <1>1, <1>2, <1>3, FunctionIsSeq

LEMMA AppendKeeps ==
  ASSUME Configured, NEW ages \in Seq(0..Second - 1), Ordered(ages)
  PROVE  Append(ages, 0) \in Seq(0..Second - 1) /\ Ordered(Append(ages, 0))
<1>1. 0 \in 0..Second - 1
  BY DEF Configured
<1>2. Append(ages, 0) \in Seq(0..Second - 1)
  BY <1>1
<1>3. \A i \in 1..Len(ages) : ages[i] \in 0..Second - 1
  BY ElementOfSeq
<1>4. Ordered(Append(ages, 0))
  BY <1>3 DEF Ordered, Configured
<1>. QED BY <1>2, <1>4

(* It makes no difference whether the calls of the last second grow older  *)
(* or the window that still holds some before them does.                   *)
LEMMA WithinOlder ==
  ASSUME Configured, NEW ages \in Seq(0..Second), Ordered(ages)
  PROVE  Within(OlderUpTo(ages)) = Within(Older(Within(ages)))
<1> DEFINE n == Outdated(ages)
           late == Within(ages)
           k == Outdated(Older(late))
<1>1. ages \in Seq(Nat) /\ Second \in Nat /\ Second > 0
  BY DEF Configured
<1>2. /\ n \in 0..Len(ages)
      /\ \A i \in 1..n : ages[i] >= Second
  BY <1>1, OutdatedExists
<1>3. /\ late \in Seq(0..Second - 1) /\ Ordered(late)
      /\ Len(late) = Len(ages) - n
      /\ \A i \in DOMAIN late : late[i] = ages[n + i]
  BY <1>1, WithinKeeps
<1>4. late \in Seq(Nat)
  BY <1>3, <1>1
<1>. HIDE DEF late, n
<1>5. /\ Older(late) \in Seq(Nat) /\ Len(Older(late)) = Len(late)
  BY <1>3, <1>4, OlderKeeps
<1>6. /\ k \in 0..Len(late)
      /\ \A i \in 1..k : Older(late)[i] >= Second
      /\ k < Len(late) => Older(late)[k + 1] < Second
  BY <1>5, OutdatedExists
<1>7. /\ OlderUpTo(ages) \in Seq(0..Second) /\ Len(OlderUpTo(ages)) = Len(ages)
      /\ OlderUpTo(ages) \in Seq(Nat)
  BY <1>1, OlderKeeps
<1>. HIDE DEF k
<1>8. \A i \in 1..n : OlderUpTo(ages)[i] = Second
  BY <1>1, <1>2 DEF OlderUpTo, Least
<1>9. \A i \in 1..Len(late) :
        /\ n + i \in DOMAIN ages /\ ages[n + i] \in Nat /\ late[i] = ages[n + i]
        /\ Older(late)[i] = late[i] + 1
        /\ OlderUpTo(ages)[n + i] = Least(Second, late[i] + 1)
  <2>. TAKE i \in 1..Len(late)
  <2>1. n + i \in 1..Len(ages) /\ DOMAIN ages = 1..Len(ages) /\ DOMAIN late = 1..Len(late)
    BY <1>1, <1>2, <1>3
  <2>2. ages[n + i] \in Nat
    BY <1>1, <2>1, ElementOfSeq
  <2>3. late[i] = ages[n + i]
    BY <1>3, <2>1
  <2>. QED BY <2>1, <2>2, <2>3 DEF Older, OlderUpTo
<1>10. \A i \in 1..n + k : OlderUpTo(ages)[i] >= Second
  <2>. TAKE i \in 1..n + k
  <2>1. CASE i <= n
    BY <1>1, <1>2, <1>8, <2>1
  <2>2. CASE i > n
    <3>1. i - n \in 1..k /\ i - n \in 1..Len(late) /\ n + (i - n) = i
      BY <1>2, <1>3, <1>6, <2>2
    <3>2. Older(late)[i - n] >= Second
      BY <1>6, <3>1
    <3>. QED BY <1>1, <1>9, <3>1, <3>2 DEF Least
  <2>. QED BY <1>2, <1>6, <2>1, <2>2
<1>11. n + k < Len(ages) => OlderUpTo(ages)[n + k + 1] < Second
  <2>. SUFFICES ASSUME n + k < Len(ages) PROVE OlderUpTo(ages)[n + k + 1] < Second
    OBVIOUS
  <2>1. k < Len(late) /\ k + 1 \in 1..Len(late) /\ n + (k + 1) = n + k + 1
    BY <1>2, <1>3, <1>6
  <2>2. Older(late)[k + 1] < Second /\ Older(late)[k + 1] = late[k + 1] + 1
    BY <1>6, <1>9, <2>1
  <2>3. OlderUpTo(ages)[n + k + 1] = Least(Second, late[k + 1] + 1)
    BY <1>9, <2>1
  <2>4. late[k + 1] \in Nat /\ Second \in Nat
    BY <1>1, <1>9, <2>1
  <2>. QED BY <2>2, <2>3, <2>4 DEF Least
<1>12. n + k \in 0..Len(ages)
  BY <1>2, <1>3, <1>6
<1>13. Outdated(OlderUpTo(ages)) = n + k
  BY <1>7, <1>10, <1>11, <1>12, OutdatedUnique
<1>14. Within(OlderUpTo(ages)) = [i \in 1..Len(ages) - (n + k) |-> OlderUpTo(ages)[n + k + i]]
  BY <1>7, <1>13 DEF Within
<1>15. Within(Older(late)) = [i \in 1..Len(late) - k |-> Older(late)[k + i]]
  BY <1>5 DEF Within, k
<1>16. Ordered(Older(late))
  BY <1>3, <1>4, OlderKeeps
<1>17. \A i \in 1..Len(late) - k : OlderUpTo(ages)[n + k + i] = Older(late)[k + i]
  <2>. TAKE i \in 1..Len(late) - k
  <2>1. k + i \in 1..Len(late) /\ k + 1 \in 1..Len(late) /\ k < Len(late) /\ n + (k + i) = n + k + i
    BY <1>2, <1>3, <1>6
  <2>2. Older(late)[k + 1] >= Older(late)[k + i]
    BY <1>5, <1>6, <1>16, <2>1 DEF Ordered
  <2>3. Older(late)[k + 1] < Second /\ Older(late)[k + 1] \in Int /\ Older(late)[k + i] \in Int
    BY <1>5, <1>6, <2>1
  <2>4. Older(late)[k + i] < Second
    BY <1>1, <2>2, <2>3
  <2>5. /\ Older(late)[k + i] = late[k + i] + 1
        /\ OlderUpTo(ages)[n + k + i] = Least(Second, late[k + i] + 1)
    BY <1>9, <2>1
  <2>. QED BY <1>1, <2>3, <2>4, <2>5 DEF Least
<1>18. Len(ages) - (n + k) = Len(late) - k
  BY <1>2, <1>3, <1>6
<1>19. Within(OlderUpTo(ages)) = Within(Older(late))
  BY <1>14, <1>15, <1>17, <1>18
<1>. QED BY <1>19 DEF late
-----------------------------------------------------------------------------
(* What each algorithm knows of the calls admitted within the last second  *)

\* a call of some age has since gained the bucket no more than the rate for that long
BucketPays ==
  \A j \in DOMAIN recent :
    Second * (Len(recent) - j + 1) + Refilled <= Second * Burst + Rate * recent[j]

\* they are the window, once it is cleaned
WindowRemembers ==
  /\ Ordered(sliding_window)
  /\ Within(sliding_window) = recent
  /\ Len(recent) <= Rate

\* those of the last window, then those of the present one, which it counts
WindowsCount ==
  \E p \in 0..Len(recent) :
    /\ p <= Rate /\ Len(recent) - p <= fixed_window_count
    /\ \A i \in DOMAIN recent :
         IF i <= p THEN recent[i] > fixed_window_start
         ELSE fixed_window_start - Second < recent[i] /\ recent[i] <= fixed_window_start

Knows ==
  /\ algorithm = "token_bucket" => BucketPays
  /\ algorithm = "sliding_window" => WindowRemembers
  /\ algorithm = "fixed_window" => WindowsCount

IInv == TypeOK /\ Ordered(recent) /\ Knows

LEMMA Products ==
  ASSUME NEW a \in Nat, NEW b \in Nat, NEW c \in Nat
  PROVE  a * c \in Nat /\ (a <= b => a * c <= b * c)
<1>1. a * c \in Nat
  OBVIOUS
<1>2. ASSUME a <= b PROVE a * c <= b * c
  <2> DEFINE d == b - a
  <2>1. d \in Nat /\ b = a + d
    BY <1>2
  <2>. HIDE DEF d
  <2>2. b * c = a * c + d * c /\ d * c \in Nat
    BY <2>1
  <2>. QED BY <1>1, <2>2
<1>. QED BY <1>1, <1>2

LEMMA Constants ==
  ASSUME Configured
  PROVE  /\ Rate \in Nat /\ Burst \in Nat /\ Second \in Nat /\ Second > 0
         /\ Burst * Second \in Nat /\ Second * Burst = Burst * Second
BY DEF Configured, Rate, Burst

LEMMA InitLimiter ==
  ASSUME Configured, Init
  PROVE  IInv
<1>1. TypeOK
  BY Constants DEF Init, TypeOK
<1>2. \A j \in DOMAIN recent : FALSE
  BY DEF Init
<1>3. Ordered(recent) /\ Ordered(sliding_window) /\ BucketPays
  BY <1>2 DEF Init, Ordered, BucketPays
<1>4. WindowRemembers
  <2>1. sliding_window \in Seq(0..Second - 1)
    BY Constants DEF Init
  <2>2. Within(sliding_window) = sliding_window
    BY <2>1, WithinRecent
  <2>. QED BY <1>3, <2>2, Constants DEF Init, WindowRemembers
<1>5. WindowsCount
  <2>1. Len(recent) = 0 /\ fixed_window_count = 0
    BY DEF Init
  <2>. QED BY <1>2, <2>1, Constants DEF WindowsCount
<1>. QED BY <1>1, <1>3, <1>4, <1>5 DEF IInv, Knows

(* The contents of the bucket when it is looked at.                        *)
LEMMA RefilledType ==
  ASSUME Configured, TypeOK
  PROVE  Refilled \in 0..Burst * Second
<1>1. bucket_tokens \in Nat /\ bucket_last \in Nat /\ Rate \in Nat /\ Burst * Second \in Nat
  BY Constants DEF TypeOK
<1>2. bucket_last * Rate \in Nat
  BY <1>1
<1>. QED BY <1>1, <1>2 DEF Refilled, Least

LEMMA AcquireTypes ==
  ASSUME Configured, IInv, Acquire
  PROVE  TypeOK' /\ Ordered(recent') /\ (recent' = recent \/ recent' = Append(recent, 0))
<1>1. TypeOK /\ Ordered(recent) /\ recent \in Seq(0..Second - 1)
  BY DEF IInv, TypeOK
<1>2. recent' = recent \/ recent' = Append(recent, 0)
  BY DEF Acquire
<1>3. recent' \in Seq(0..Second - 1) /\ Ordered(recent')
  BY <1>1, <1>2, AppendKeeps
<1>4. bucket_tokens' \in 0..Burst * Second /\ bucket_last' \in Nat
  <2>1. CASE TokenBucket
    <3>1. Refilled \in 0..Burst * Second /\ bucket_last' = 0
      BY <1>1, <2>1, RefilledType DEF TokenBucket
    <3>2. Admits => Refilled >= Second
      BY <2>1 DEF TokenBucket, Admits
    <3>. QED BY <2>1, <3>1, <3>2, Constants DEF TokenBucket
  <2>2. CASE UNCHANGED <<bucket_tokens, bucket_last>>
    BY <1>1, <2>2 DEF TypeOK
  <2>. QED BY <2>1, <2>2 DEF Acquire, SlidingWindow, FixedWindow, Unchecked
<1>5. sliding_window' \in Seq(0..Second)
  <2>1. CASE SlidingWindow
    <3>1. sliding_window \in Seq(Nat) /\ Ordered(sliding_window)
      BY <1>1, <2>1, Constants DEF SlidingWindow, IInv, Knows, WindowRemembers, TypeOK
    <3>2. Within(sliding_window) \in Seq(0..Second - 1) /\ Ordered(Within(sliding_window))
      BY <3>1, WithinKeeps
    <3>3. sliding_window' \in Seq(0..Second - 1)
      BY <2>1, <3>2, AppendKeeps DEF SlidingWindow
    <3>4. 0..Second - 1 \subseteq 0..Second
      BY Constants
    <3>. QED BY <3>3, <3>4, SeqMonotonic
  <2>2. CASE UNCHANGED sliding_window
    BY <1>1, <2>2 DEF TypeOK
  <2>. QED BY <2>1, <2>2 DEF Acquire, TokenBucket, FixedWindow, Unchecked
<1>6. fixed_window_start' \in 0..2 * Second - 1 /\ fixed_window_count' \in 0..Rate
  <2>1. CASE FixedWindow
    <3>1. fixed_window_start \in 0..2 * Second - 1 /\ fixed_window_count \in 0..Rate
      BY <1>1 DEF TypeOK
    <3>2. fixed_window_start % Second \in 0..Second - 1
      BY <3>1, Constants
    <3>3. Rotated \in 0..Rate
      BY <3>1, Constants DEF Rotated
    <3>4. Admits => Rotated + 1 <= Rate
      BY <2>1 DEF FixedWindow, Admits
    <3>. QED BY <2>1, <3>2, <3>3, <3>4, Constants DEF FixedWindow
  <2>2. CASE UNCHANGED <<fixed_window_start, fixed_window_count>>
    BY <1>1, <2>2 DEF TypeOK
  <2>. QED BY <2>1, <2>2 DEF Acquire, TokenBucket, SlidingWindow, Unchecked
<1>7. algorithm' \in Algorithms
  BY <1>1 DEF Acquire, TypeOK
<1>. QED BY <1>2, <1>3, <1>4, <1>5, <1>6, <1>7 DEF TypeOK

(* The calls of recent, when one is added.                                 *)
LEMMA OneMore ==
  ASSUME Configured, TypeOK, recent' = Append(recent, 0)
  PROVE  /\ Len(recent) \in Nat /\ Len(recent') = Len(recent) + 1
         /\ DOMAIN recent = 1..Len(recent) /\ DOMAIN recent' = 1..Len(recent) + 1
         /\ \A j \in 1..Len(recent) : recent'[j] = recent[j] /\ recent[j] \in Nat /\ recent[j] < Second
         /\ recent'[Len(recent) + 1] = 0
<1>1. recent \in Seq(0..Second - 1) /\ Second \in Nat
  BY Constants DEF TypeOK
<1>2. \A j \in 1..Len(recent) : recent[j] \in 0..Second - 1
  BY <1>1, ElementOfSeq
<1>. QED BY <1>1, <1>2

LEMMA BucketAcquires ==
  ASSUME Configured, IInv, Acquire, algorithm = "token_bucket"
  PROVE  BucketPays'
<1>0. /\ TypeOK /\ TypeOK' /\ BucketPays
      /\ Rate \in Nat /\ Burst \in Nat /\ Second \in Nat /\ Second > 0
  BY AcquireTypes, Constants DEF IInv, Knows
<1>. HIDE DEF TypeOK
<1>1. CASE Unchecked
  <2>1. ~Admits /\ UNCHANGED <<bucket_tokens, bucket_last, recent>>
    BY <1>0, <1>1 DEF Unchecked, Admits, Acquire
  <2>2. Refilled' = Refilled
    BY <2>1 DEF Refilled, Least, Burst, Rate
  <2>. QED BY <1>0, <2>1, <2>2 DEF BucketPays, Burst, Rate
<1>2. CASE TokenBucket
  <2>1. Refilled \in 0..Burst * Second
    BY <1>0, RefilledType
  <2>2. /\ bucket_tokens' = IF Admits THEN Refilled - Second ELSE Refilled
        /\ bucket_last' = 0
        /\ Admits => Refilled >= Second
    BY <1>2 DEF TokenBucket, Admits
  <2>3. bucket_tokens' \in Nat /\ bucket_tokens' <= Burst * Second
    BY <1>0, <2>1, <2>2, Constants
  <2>4. Refilled' = Least(Burst * Second, bucket_tokens' + bucket_last' * Rate)
    BY DEF Refilled, Least, Burst, Rate
  <2>5. Refilled' = bucket_tokens'
    BY <1>0, <2>2, <2>3, <2>4, Constants DEF Least
  <2>6. \A j \in DOMAIN recent : Second * (Len(recent) - j + 1) + Refilled <= Second * Burst + Rate * recent[j]
    BY <1>0 DEF BucketPays
  <2>7. CASE ~Admits
    <3>1. recent' = recent
      BY <2>7 DEF Acquire
    <3>. QED BY <2>2, <2>5, <2>6, <2>7, <3>1 DEF BucketPays, Burst, Rate
  <2>8. CASE Admits
    <3>1. recent' = Append(recent, 0)
      BY <1>2, <2>8 DEF Acquire, TokenBucket
    <3>2. /\ Len(recent) \in Nat /\ Len(recent') = Len(recent) + 1
          /\ DOMAIN recent = 1..Len(recent) /\ DOMAIN recent' = 1..Len(recent) + 1
          /\ \A j \in 1..Len(recent) : recent'[j] = recent[j] /\ recent[j] \in Nat
          /\ recent'[Len(recent) + 1] = 0
      BY <1>0, <3>1, OneMore
    <3>3. ASSUME NEW j \in 1..Len(recent) + 1
          PROVE  Second * (Len(recent) + 1 - j + 1) + (Refilled - Second) <= Second * Burst + Rate * recent'[j]
      <4>1. CASE j <= Len(recent)
        <5>1. j \in 1..Len(recent) /\ recent'[j] = recent[j]
          BY <3>2, <4>1
        <5>2. Second * (Len(recent) - j + 1) + Refilled <= Second * Burst + Rate * recent'[j]
          BY <2>6, <3>2, <5>1
        <5>3. Second * (Len(recent) + 1 - j + 1) = Second * (Len(recent) - j + 1) + Second
          BY <1>0, <3>2
        <5>4. Second * (Len(recent) - j + 1) \in Int /\ Second * Burst \in Int /\ Rate * recent'[j] \in Int
          BY <1>0, <3>2, <5>1
        <5>. QED BY <1>0, <2>1, <5>2, <5>3, <5>4
      <4>2. CASE j = Len(recent) + 1
        <5>1. Second * (Len(recent) + 1 - j + 1) = Second /\ Rate * recent'[j] = 0
          BY <1>0, <3>2, <4>2
        <5>. QED BY <1>0, <2>1, <5>1, Constants
      <4>. QED BY <3>2, <4>1, <4>2
    <3>. QED BY <2>2, <2>5, <2>8, <3>2, <3>3 DEF BucketPays, Burst, Rate
  <2>. QED BY <2>7, <2>8
<1>. QED BY <1>1, <1>2 DEF Acquire, SlidingWindow, FixedWindow

LEMMA WindowAcquires ==
  ASSUME Configured, IInv, Acquire, algorithm = "sliding_window"
  PROVE  WindowRemembers'
<1>0. /\ TypeOK /\ WindowRemembers /\ Ordered(recent) /\ Ordered(recent') /\ TypeOK'
      /\ Rate \in Nat /\ Second \in Nat
  BY AcquireTypes, Constants DEF IInv, Knows
<1>1. CASE Unchecked
  <2>1. ~Admits /\ UNCHANGED <<sliding_window, recent>>
    BY <1>0, <1>1 DEF Unchecked, Admits, Acquire
  <2>. QED BY <1>0, <2>1 DEF WindowRemembers, Ordered, Within, Outdated, Rate
<1>2. CASE SlidingWindow
  <2>1. Within(sliding_window) = recent
    BY <1>0 DEF WindowRemembers
  <2>2. sliding_window' = recent'
    BY <1>2, <2>1 DEF SlidingWindow, Acquire
  <2>3. recent' \in Seq(0..Second - 1)
    BY <1>0 DEF TypeOK
  <2>4. Within(recent') = recent'
    BY <2>3, WithinRecent
  <2>5. Within(sliding_window)' = recent'
    BY <2>2, <2>4 DEF Within, Outdated
  <2>6. Len(recent') <= Rate
    <3>1. CASE Admits
      <4>1. Len(recent) + 1 <= Rate
        BY <1>2, <2>1, <3>1 DEF Admits, SlidingWindow
      <4>2. Len(recent') = Len(recent) + 1
        BY <1>0, <1>2, <3>1, OneMore DEF Acquire, SlidingWindow
      <4>. QED BY <4>1, <4>2
    <3>2. CASE ~Admits
      BY <1>0, <3>2 DEF Acquire, WindowRemembers
    <3>. QED BY <3>1, <3>2
  <2>. QED BY <1>0, <2>2, <2>5, <2>6 DEF WindowRemembers, Ordered, Rate
<1>. QED BY <1>1, <1>2 DEF Acquire, TokenBucket, FixedWindow

LEMMA FixedAcquires ==
  ASSUME Configured, IInv, Acquire, algorithm = "fixed_window"
  PROVE  WindowsCount'
<1>0. /\ TypeOK /\ TypeOK' /\ WindowsCount
      /\ Rate \in Nat /\ Second \in Nat /\ Second > 0
      /\ fixed_window_start \in 0..2 * Second - 1 /\ fixed_window_count \in 0..Rate
      /\ Len(recent) \in Nat /\ DOMAIN recent = 1..Len(recent)
      /\ \A j \in 1..Len(recent) : recent[j] \in Nat /\ recent[j] < Second
  <2>1. TypeOK /\ TypeOK' /\ WindowsCount /\ Rate \in Nat /\ Second \in Nat /\ Second > 0
    BY AcquireTypes, Constants DEF IInv, Knows
  <2>2. recent \in Seq(0..Second - 1)
    BY <2>1 DEF TypeOK
  <2>3. \A j \in 1..Len(recent) : recent[j] \in 0..Second - 1
    BY <2>2, ElementOfSeq
  <2>4. Len(recent) \in Nat /\ DOMAIN recent = 1..Len(recent)
    BY <2>2, LenProperties
  <2>5. \A j \in 1..Len(recent) : recent[j] \in Nat /\ recent[j] < Second
    BY <2>1, <2>3
  <2>6. fixed_window_start \in 0..2 * Second - 1 /\ fixed_window_count \in 0..Rate
    BY <2>1 DEF TypeOK
  <2>. QED BY <2>1, <2>4, <2>5, <2>6
<1>1. PICK p \in 0..Len(recent) :
        /\ p <= Rate /\ Len(recent) - p <= fixed_window_count
        /\ \A i \in DOMAIN recent :
             IF i <= p THEN recent[i] > fixed_window_start
             ELSE fixed_window_start - Second < recent[i] /\ recent[i] <= fixed_window_start
  BY <1>0 DEF WindowsCount
<1>2. CASE Unchecked
  <2>1. ~Admits /\ UNCHANGED <<fixed_window_start, fixed_window_count, recent>>
    BY <1>0, <1>2 DEF Unchecked, Admits, Acquire
  <2>. QED BY <1>0, <2>1 DEF WindowsCount, Rate
<1>3. CASE FixedWindow
  <2> DEFINE start == fixed_window_start % Second
             q == IF fixed_window_start < Second THEN p ELSE Len(recent)
  <2>1. /\ fixed_window_start' = start
        /\ fixed_window_count' = IF Admits THEN Rotated + 1 ELSE Rotated
        /\ recent' = IF Admits THEN Append(recent, 0) ELSE recent
    BY <1>3 DEF FixedWindow, Acquire
  <2>2. /\ start \in 0..Second - 1
        /\ fixed_window_start < Second => start = fixed_window_start
        /\ fixed_window_start >= Second => start = fixed_window_start - Second
    BY <1>0
  <2>. HIDE DEF start
  \* the calls of the window that ends here are those of the last window now
  <2>3. /\ q \in 0..Len(recent) /\ q <= Rate /\ Len(recent) - q <= Rotated
        /\ \A i \in DOMAIN recent :
             IF i <= q THEN recent[i] > start
             ELSE start - Second < recent[i] /\ recent[i] <= start
    <3>1. CASE fixed_window_start < Second
      BY <1>0, <1>1, <2>2, <3>1 DEF Rotated
    <3>2. CASE fixed_window_start >= Second
      <4>1. \A i \in DOMAIN recent : ~(i <= p)
        BY <1>0, <1>1, <3>2
      <4>2. p = 0
        <5>1. p # 0 => 1 \in DOMAIN recent /\ 1 <= p
          BY <1>0, <1>1
        <5>. QED BY <4>1, <5>1
      <4>3. Len(recent) <= Rate
        BY <1>0, <1>1, <4>2
      <4>4. \A i \in DOMAIN recent : recent[i] > start /\ i <= Len(recent)
        BY <1>0, <1>1, <2>2, <3>2, <4>1
      <4>5. ~(fixed_window_start < Second)
        BY <1>0, <3>2
      <4>6. q = Len(recent) /\ Rotated = 0
        BY <4>5 DEF Rotated
      <4>7. Len(recent) \in 0..Len(recent) /\ Len(recent) - Len(recent) <= 0
        BY <1>0
      <4>. HIDE DEF q
      <4>. QED BY <4>3, <4>4, <4>6, <4>7
    <3>. QED BY <1>0, <3>1, <3>2
  <2>. HIDE DEF q
  <2>4. CASE ~Admits
    <3>1. /\ q \in 0..Len(recent') /\ q <= Rate /\ Len(recent') - q <= fixed_window_count'
          /\ \A i \in DOMAIN recent' :
               IF i <= q THEN recent'[i] > fixed_window_start'
               ELSE fixed_window_start' - Second < recent'[i] /\ recent'[i] <= fixed_window_start'
      BY <2>1, <2>3, <2>4
    <3>. QED BY <3>1 DEF WindowsCount, Rate
  <2>5. CASE Admits
    <3>1. /\ Len(recent') = Len(recent) + 1
          /\ DOMAIN recent' = 1..Len(recent) + 1
          /\ \A j \in 1..Len(recent) : recent'[j] = recent[j]
          /\ recent'[Len(recent) + 1] = 0
      BY <1>0, <2>1, <2>5, OneMore
    <3>2. fixed_window_count' = Rotated + 1 /\ Rotated \in Nat
      BY <1>0, <2>1, <2>5 DEF Rotated
    <3>3. q \in 0..Len(recent') /\ q <= Rate /\ Len(recent') - q <= fixed_window_count'
      BY <1>0, <2>3, <3>1, <3>2
    <3>4. ASSUME NEW i \in DOMAIN recent'
          PROVE  IF i <= q THEN recent'[i] > fixed_window_start'
                 ELSE fixed_window_start' - Second < recent'[i] /\ recent'[i] <= fixed_window_start'
      <4>1. CASE i \in 1..Len(recent)
        BY <1>0, <2>1, <2>3, <3>1, <4>1
      <4>2. CASE i = Len(recent) + 1
        BY <1>0, <2>1, <2>2, <2>3, <3>1, <4>2
      <4>. QED BY <1>0, <3>1, <4>1, <4>2
    <3>. QED BY <3>3, <3>4 DEF WindowsCount, Rate
  <2>. QED BY <2>4, <2>5
<1>. QED BY <1>2, <1>3 DEF Acquire, TokenBucket, SlidingWindow

LEMMA AcquireLimiter ==
  ASSUME Configured, IInv, Acquire
  PROVE  IInv'
<1>1. TypeOK' /\ Ordered(recent)' /\ algorithm' = algorithm
  BY AcquireTypes DEF Acquire, Ordered
<1>. QED BY <1>1, BucketAcquires, WindowAcquires, FixedAcquires DEF IInv, Knows
-----------------------------------------------------------------------------
(* Time passes *)

\* the calls that are still within the last second are a tick older
LEMMA TickRecent ==
  ASSUME Configured, IInv, Tick
  PROVE  /\ recent' = Within(Older(recent))
         /\ recent' \in Seq(0..Second - 1) /\ Ordered(recent')
         /\ Len(recent) \in Nat /\ DOMAIN recent = 1..Len(recent)
         /\ \E n \in 0..Len(recent) :
              /\ Len(recent') = Len(recent) - n
              /\ \A i \in DOMAIN recent' : /\ i \in 1..Len(recent) - n
                                           /\ recent[n + i] \in Nat
                                           /\ recent'[i] = recent[n + i] + 1
              /\ \A i \in 1..Len(recent) : recent[i] + 1 < Second => i > n
<1>1. recent \in Seq(0..Second - 1) /\ Ordered(recent) /\ Second \in Nat
  BY Constants DEF IInv, TypeOK
<1>2. recent \in Seq(Nat) /\ \A i \in 1..Len(recent) : recent[i] \in Nat
  BY <1>1, SeqMonotonic
<1>3. /\ Older(recent) \in Seq(Nat) /\ Len(Older(recent)) = Len(recent) /\ Ordered(Older(recent))
  BY <1>1, <1>2, OlderKeeps
<1>4. recent' = Within(Older(recent))
  BY DEF Tick, Older
<1>5. /\ recent' \in Seq(0..Second - 1) /\ Ordered(recent')
      /\ Len(recent') = Len(recent) - Outdated(Older(recent))
      /\ \A i \in DOMAIN recent' : /\ Outdated(Older(recent)) + i \in DOMAIN Older(recent)
                                   /\ recent'[i] = Older(recent)[Outdated(Older(recent)) + i]
      /\ \A i \in DOMAIN Older(recent) : Older(recent)[i] < Second => i > Outdated(Older(recent))
  BY <1>3, <1>4, WithinKeeps
<1>6. Outdated(Older(recent)) \in 0..Len(recent)
  BY <1>3, OutdatedExists
<1>7. DOMAIN Older(recent) = 1..Len(recent) /\ \A i \in 1..Len(recent) : Older(recent)[i] = recent[i] + 1
  BY <1>2 DEF Older
<1>8. DOMAIN recent' = 1..Len(recent) - Outdated(Older(recent))
  BY <1>5
<1>9. PICK n \in 0..Len(recent) : n = Outdated(Older(recent))
  BY <1>6
<1>10. /\ Len(recent') = Len(recent) - n
       /\ \A i \in DOMAIN recent' : /\ i \in 1..Len(recent) - n
                                    /\ recent[n + i] \in Nat
                                    /\ recent'[i] = recent[n + i] + 1
       /\ \A i \in 1..Len(recent) : recent[i] + 1 < Second => i > n
  BY <1>2, <1>5, <1>7, <1>8, <1>9
<1>11. \E m \in 0..Len(recent) :
         /\ Len(recent') = Len(recent) - m
         /\ \A i \in DOMAIN recent' : /\ i \in 1..Len(recent) - m
                                      /\ recent[m + i] \in Nat
                                      /\ recent'[i] = recent[m + i] + 1
         /\ \A i \in 1..Len(recent) : recent[i] + 1 < Second => i > m
  <2>. WITNESS n \in 0..Len(recent)
  <2>. QED BY <1>10
<1>12. Len(recent) \in Nat /\ DOMAIN recent = 1..Len(recent)
  BY <1>1
<1>. QED BY <1>4, <1>5, <1>11, <1>12

LEMMA TickTypes ==
  ASSUME Configured, IInv, Tick
  PROVE  TypeOK' /\ Ordered(recent)'
<1>0. TypeOK /\ Rate \in Nat /\ Burst * Second \in Nat /\ Second \in Nat /\ Second > 0
  BY Constants DEF IInv
<1>1. recent' \in Seq(0..Second - 1) /\ Ordered(recent)'
  BY TickRecent DEF Ordered
<1>2. bucket_tokens' \in 0..Burst * Second /\ bucket_last' \in Nat
  BY <1>0 DEF TypeOK, Tick, Least
<1>3. sliding_window' \in Seq(0..Second)
  <2>1. sliding_window \in Seq(0..Second)
    BY <1>0 DEF TypeOK
  <2>2. DOMAIN sliding_window = 1..Len(sliding_window) /\ Len(sliding_window) \in Nat
        /\ \A i \in 1..Len(sliding_window) : sliding_window[i] \in 0..Second
    <3>1. \A i \in 1..Len(sliding_window) : sliding_window[i] \in 0..Second
      BY <2>1, ElementOfSeq
    <3>. QED BY <2>1, <3>1
  <2>3. sliding_window' \in [1..Len(sliding_window) -> 0..Second]
    BY <1>0, <2>2 DEF Tick, Least
  <2>. QED BY <2>2, <2>3, FunctionIsSeq
<1>4. fixed_window_start' \in 0..2 * Second - 1 /\ fixed_window_count' \in 0..Rate
  BY <1>0 DEF TypeOK, Tick
<1>5. algorithm' \in Algorithms
  BY <1>0 DEF TypeOK, Tick
<1>. QED BY <1>1, <1>2, <1>3, <1>4, <1>5 DEF TypeOK

(* A tick gives the bucket no more than it gives every call of recent.     *)
LEMMA BucketTicks ==
  ASSUME Configured, IInv, Tick, algorithm = "token_bucket"
  PROVE  BucketPays'
<1>0. /\ TypeOK /\ BucketPays
      /\ Rate \in Nat /\ Burst \in Nat /\ Second \in Nat /\ Second > 0
      /\ Burst * Second \in Nat /\ Second * Burst = Burst * Second
  BY Constants DEF IInv, Knows
<1>1. Refilled \in 0..Burst * Second
  BY <1>0, RefilledType
<1>2. Refilled' \in Nat /\ Refilled' <= Refilled + Rate
  <2>1. bucket_tokens' = bucket_tokens /\ bucket_tokens \in Nat /\ bucket_last \in Nat
    BY <1>0 DEF TypeOK, Tick
  <2>2. bucket_last' \in Nat /\ bucket_last' <= bucket_last + 1
    BY <1>0, <2>1 DEF Tick, Least
  <2>3. bucket_last' * Rate <= bucket_last * Rate + Rate
    <3> DEFINE next == bucket_last + 1
    <3>0. next \in Nat /\ bucket_last' \in Nat /\ bucket_last' <= next
      BY <2>1, <2>2
    <3>. HIDE DEF next
    <3>1. bucket_last' * Rate <= next * Rate
      BY <1>0, <3>0, Products
    <3>2. next * Rate = bucket_last * Rate + Rate
      BY <1>0, <2>1 DEF next
    <3>. QED BY <3>1, <3>2
  <2>4. bucket_last * Rate \in Nat /\ bucket_last' * Rate \in Nat
    BY <1>0, <2>1, <2>2, Products
  <2>5. Refilled' = Least(Burst * Second, bucket_tokens + bucket_last' * Rate)
    BY <2>1 DEF Refilled, Least, Burst, Rate
  <2>. QED BY <1>0, <2>1, <2>3, <2>4, <2>5 DEF Refilled, Least
<1>3. PICK n \in 0..Len(recent) :
        /\ Len(recent') = Len(recent) - n
        /\ \A i \in DOMAIN recent' : /\ i \in 1..Len(recent) - n
                                     /\ recent[n + i] \in Nat
                                     /\ recent'[i] = recent[n + i] + 1
  BY TickRecent
<1>4. Len(recent) \in Nat /\ DOMAIN recent = 1..Len(recent)
  BY TickRecent
<1>5. ASSUME NEW j \in DOMAIN recent'
      PROVE  Second * (Len(recent') - j + 1) + Refilled' <= Second * Burst + Rate * recent'[j]
  <2>1. j \in 1..Len(recent) - n /\ n + j \in DOMAIN recent /\ recent[n + j] \in Nat
        /\ recent'[j] = recent[n + j] + 1
    BY <1>3, <1>4
  <2>2. Second * (Len(recent) - (n + j) + 1) + Refilled <= Second * Burst + Rate * recent[n + j]
    BY <1>0, <2>1 DEF BucketPays
  <2>3. Len(recent') - j + 1 = Len(recent) - (n + j) + 1
    BY <1>3, <1>4, <2>1
  <2>4. Rate * recent'[j] = Rate * recent[n + j] + Rate
    BY <1>0, <2>1
  <2>5. Second * (Len(recent) - (n + j) + 1) \in Int /\ Rate * recent[n + j] \in Int
    <3>1. Len(recent) - (n + j) + 1 \in Int
      BY <1>4, <2>1
    <3>. QED BY <1>0, <2>1, <3>1
  <2>6. Second * (Len(recent') - j + 1) = Second * (Len(recent) - (n + j) + 1)
    BY <2>3
  <2>7. Rate \in Int /\ Refilled \in Int /\ Refilled' \in Int /\ Refilled' <= Refilled + Rate
    BY <1>0, <1>1, <1>2
  <2>8. PICK cost \in Int : cost = Second * (Len(recent) - (n + j) + 1)
    BY <2>5
  <2>9. PICK gain \in Int : gain = Rate * recent[n + j]
    BY <2>5
  <2>10. PICK full \in Int : full = Second * Burst
    BY <1>0
  <2>11. cost + Refilled <= full + gain
    BY <2>2, <2>8, <2>9, <2>10
  <2>12. PICK before \in Int, after \in Int, r \in Int :
           before = Refilled /\ after = Refilled' /\ r = Rate
    BY <2>7
  <2>13. cost + before <= full + gain /\ after <= before + r
    BY <2>7, <2>11, <2>12
  <2>14. cost + after <= full + (gain + r)
    BY <2>13
  <2>. QED BY <2>4, <2>6, <2>8, <2>9, <2>10, <2>12, <2>14
<1>. QED BY <1>5 DEF BucketPays, Rate, Burst

LEMMA WindowTicks ==
  ASSUME Configured, IInv, Tick, algorithm = "sliding_window"
  PROVE  WindowRemembers'
<1>0. /\ TypeOK /\ WindowRemembers /\ Rate \in Nat /\ Second \in Nat
      /\ sliding_window \in Seq(0..Second)
  BY Constants DEF IInv, Knows, TypeOK
<1>1. sliding_window' = OlderUpTo(sliding_window)
  BY DEF Tick, OlderUpTo
<1>2. sliding_window \in Seq(Nat)
  BY <1>0, SeqMonotonic
<1>3. Ordered(sliding_window)'
  BY <1>0, <1>1, <1>2, OlderKeeps DEF WindowRemembers, Ordered
<1>4. Within(sliding_window') = recent'
  BY <1>0, <1>1, WithinOlder, TickRecent DEF WindowRemembers
<1>5. Within(sliding_window)' = recent'
  BY <1>4 DEF Within, Outdated
<1>6. Len(recent') <= Rate
  <2>1. PICK n \in 0..Len(recent) : Len(recent') = Len(recent) - n
    BY TickRecent
  <2>2. Len(recent) \in Nat
    BY TickRecent
  <2>. QED BY <1>0, <2>1, <2>2 DEF WindowRemembers
<1>. QED BY <1>3, <1>5, <1>6 DEF WindowRemembers, Rate

LEMMA FixedTicks ==
  ASSUME Configured, IInv, Tick, algorithm = "fixed_window"
  PROVE  WindowsCount'
<1>0. /\ TypeOK /\ WindowsCount
      /\ Rate \in Nat /\ Second \in Nat /\ Second > 0
      /\ fixed_window_start \in 0..2 * Second - 1 /\ fixed_window_count \in 0..Rate
  BY Constants DEF IInv, Knows, TypeOK
<1>1. PICK p \in 0..Len(recent) :
        /\ p <= Rate /\ Len(recent) - p <= fixed_window_count
        /\ \A i \in DOMAIN recent :
             IF i <= p THEN recent[i] > fixed_window_start
             ELSE fixed_window_start - Second < recent[i] /\ recent[i] <= fixed_window_start
  BY <1>0 DEF WindowsCount
<1>2. PICK n \in 0..Len(recent) :
        /\ Len(recent') = Len(recent) - n
        /\ \A i \in DOMAIN recent' : /\ i \in 1..Len(recent) - n
                                     /\ recent[n + i] \in Nat
                                     /\ recent'[i] = recent[n + i] + 1
  BY TickRecent
<1>3. /\ Len(recent) \in Nat /\ DOMAIN recent = 1..Len(recent)
      /\ recent' \in Seq(0..Second - 1)
  BY TickRecent
<1>4. /\ DOMAIN recent' = 1..Len(recent') /\ Len(recent') \in Nat
      /\ \A i \in 1..Len(recent') : recent'[i] \in 0..Second - 1
  <2>1. \A i \in 1..Len(recent') : recent'[i] \in 0..Second - 1
    BY <1>3, ElementOfSeq
  <2>. QED BY <1>3, <2>1
<1>5. fixed_window_count' = fixed_window_count
      /\ fixed_window_start' = IF fixed_window_start + 1 < 2 * Second THEN fixed_window_start + 1 ELSE Second
  BY DEF Tick
<1> DEFINE q == IF n <= p THEN p - n ELSE 0
<1>6. q \in 0..Len(recent') /\ q <= Rate /\ Len(recent') - q <= fixed_window_count'
  BY <1>0, <1>1, <1>2, <1>3, <1>5
<1>7. ASSUME NEW i \in DOMAIN recent'
      PROVE  IF i <= q THEN recent'[i] > fixed_window_start'
             ELSE fixed_window_start' - Second < recent'[i] /\ recent'[i] <= fixed_window_start'
  <2>1. n + i \in DOMAIN recent /\ recent[n + i] \in Nat /\ recent'[i] = recent[n + i] + 1
        /\ recent'[i] \in 0..Second - 1 /\ i \in Nat /\ i > 0
    BY <1>2, <1>3, <1>4
  <2>2. i <= q <=> n + i <= p
    BY <1>1, <1>2, <1>3, <2>1
  <2>3. IF n + i <= p THEN recent[n + i] > fixed_window_start
        ELSE fixed_window_start - Second < recent[n + i] /\ recent[n + i] <= fixed_window_start
    BY <1>1, <2>1
  <2>. HIDE DEF q
  <2>4. CASE fixed_window_start + 1 < 2 * Second
    BY <1>0, <1>5, <2>1, <2>2, <2>3, <2>4
  <2>5. CASE ~(fixed_window_start + 1 < 2 * Second)  \* no call is as old as that
    <3>1. fixed_window_start = 2 * Second - 1
      BY <1>0, <2>5
    <3>2. FALSE
      BY <1>0, <2>1, <2>3, <3>1
    <3>. QED BY <3>2
  <2>. QED BY <2>4, <2>5
<1>. HIDE DEF q
<1>. QED BY <1>6, <1>7 DEF WindowsCount, Rate

LEMMA TickLimiter ==
  ASSUME Configured, IInv, Tick
  PROVE  IInv'
<1>1. algorithm' = algorithm
  BY DEF Tick
<1>. QED BY <1>1, TickTypes, BucketTicks, WindowTicks, FixedTicks DEF IInv, Knows
-----------------------------------------------------------------------------
LEMMA SameLimiter ==
  ASSUME IInv, UNCHANGED limiter
  PROVE  IInv'
BY DEF IInv, limiter, TypeOK, Knows, Ordered, BucketPays, WindowRemembers, WindowsCount,
       Refilled, Least, Burst, Rate, Within, Outdated

LEMMA LimiterBounds ==
  ASSUME Configured, IInv
  PROVE  TypeOK /\ AdmissionsAreBounded
<1>. SUFFICES AdmissionsAreBounded
  BY DEF IInv
<1>0. /\ TypeOK /\ Rate \in Nat /\ Burst \in Nat /\ Second \in Nat /\ Second > 0
      /\ Second * Burst \in Nat /\ Second * Burst = Burst * Second
      /\ recent \in Seq(0..Second - 1)
  BY Constants DEF IInv, TypeOK
<1>1. Len(recent) \in Nat /\ \A i \in 1..Len(recent) : recent[i] \in 0..Second - 1
  BY <1>0, ElementOfSeq
<1>2. (Second - 1) * Rate \in Nat
  BY <1>0
<1>3. CASE algorithm = "token_bucket"
  <2>1. CASE Len(recent) = 0
    <3>1. Second * Len(recent) = 0
      BY <1>0, <2>1
    <3>. QED BY <1>0, <1>2, <1>3, <3>1 DEF AdmissionsAreBounded
  <2>2. CASE Len(recent) # 0
    <3>1. 1 \in DOMAIN recent /\ recent[1] \in 0..Second - 1
      BY <1>0, <1>1, <2>2
    <3>2. Second * (Len(recent) - 1 + 1) + Refilled <= Second * Burst + Rate * recent[1]
      BY <1>3, <3>1 DEF IInv, Knows, BucketPays
    <3>3. Refilled \in Nat
      BY <1>0, RefilledType
    <3>4. Rate * recent[1] <= (Second - 1) * Rate
      <4>1. recent[1] \in Nat /\ Second - 1 \in Nat /\ recent[1] <= Second - 1
        BY <1>0, <3>1
      <4>2. recent[1] * Rate <= (Second - 1) * Rate
        BY <1>0, <4>1, Products
      <4>. QED BY <1>0, <4>1, <4>2
    <3>5. Len(recent) - 1 + 1 = Len(recent) /\ Second * Len(recent) \in Nat /\ Rate * recent[1] \in Nat
      BY <1>0, <1>1, <3>1
    <3>6. Second * Len(recent) <= Second * Burst + (Second - 1) * Rate
      BY <1>0, <1>2, <3>2, <3>3, <3>4, <3>5
    <3>. QED BY <1>3, <3>6 DEF AdmissionsAreBounded
  <2>. QED BY <2>1, <2>2
<1>4. CASE algorithm = "sliding_window"
  BY <1>4 DEF IInv, Knows, WindowRemembers, AdmissionsAreBounded
<1>5. CASE algorithm = "fixed_window"
  <2>1. PICK p \in 0..Len(recent) : p <= Rate /\ Len(recent) - p <= fixed_window_count
    BY <1>5 DEF IInv, Knows, WindowsCount
  <2>2. fixed_window_count \in 0..Rate
    BY <1>0 DEF TypeOK
  <2>3. Len(recent) <= 2 * Rate
    BY <1>0, <1>1, <2>1, <2>2
  <2>. QED BY <1>5, <2>3 DEF AdmissionsAreBounded
<1>6. CASE algorithm = "none"
  BY <1>6 DEF AdmissionsAreBounded
<1>. QED BY <1>0, <1>3, <1>4, <1>5, <1>6 DEF TypeOK, Algorithms

(* Within any second a limiter admits no more calls than its algorithm     *)
(* allows, however they are spread and whatever the rate and the burst.    *)
THEOREM AdmissionsAreBoundedHolds ==
  ASSUME Configured
  PROVE  Spec => [](TypeOK /\ AdmissionsAreBounded)
<1>1. Init => IInv
  BY InitLimiter
<1>2. IInv /\ [Next]_limiter => IInv'
  BY AcquireLimiter, TickLimiter, SameLimiter DEF Next
<1>3. IInv => TypeOK /\ AdmissionsAreBounded
  BY LimiterBounds
<1>. QED BY <1>1, <1>2, <1>3, PTL DEF Spec
=============================================================================
