----------------------------- MODULE RateLimiter -----------------------------
(***************************************************************************)
(* resilience/rate_limiter.py: RateLimiter.acquire() for one token, under  *)
(* each of the three algorithms.  What the code computes from the time of  *)
(* day when acquire() is called is kept as ages, which a tick raises: the  *)
(* bucket is refilled, the window cleaned and the fixed window rotated     *)
(* only by a call.  A second has Second ticks, and a token Second parts,   *)
(* of which the bucket gains rate in a tick.                               *)
(*                                                                         *)
(* acquire() never waits; acquire_or_wait(), reset() and update_config()   *)
(* have no caller in the code.                                             *)
(***************************************************************************)
EXTENDS Integers, Sequences, FiniteSets

CONSTANTS
  rate, burst,  \* of the RateLimiterConfig
  Second        \* ticks in _WINDOW_SIZE_S

\* assumed by the module that composes the limiter with the rest
Configured ==
  /\ rate \in Int /\ burst \in Int
  /\ Second \in Nat \ {0}

VARIABLES
  algorithm,      \* "none": there is no limiter
  bucket_tokens, bucket_last,              \* parts of a token; the age of the last refill
  sliding_window,                          \* the ages of its entries, oldest first
  fixed_window_start, fixed_window_count,  \* the age of the window; its calls
  recent          \* auxiliary: the ages of the calls admitted within a second

limiter == <<algorithm, bucket_tokens, bucket_last, sliding_window,
             fixed_window_start, fixed_window_count, recent>>

Algorithms == {"none", "token_bucket", "sliding_window", "fixed_window"}

Least(a, b) == IF a < b THEN a ELSE b
Rate == IF rate < 0 THEN 0 ELSE rate
Burst == IF burst < 0 THEN 0 ELSE burst

Init ==
  /\ algorithm \in Algorithms
  /\ bucket_tokens = Burst * Second /\ bucket_last = 0
  /\ sliding_window = <<>>
  /\ fixed_window_start = 0 /\ fixed_window_count = 0
  /\ recent = <<>>
-----------------------------------------------------------------------------
(* what a call finds *)

RefilledUncapped == bucket_tokens + bucket_last * Rate  \* mutant of Refilled
Refilled == Least(Burst * Second, bucket_tokens + bucket_last * Rate)

\* how many of the oldest are not within the last second
Outdated(ages) ==
  CHOOSE n \in 0..Len(ages) : /\ \A i \in 1..n : ages[i] >= Second
                              /\ n < Len(ages) => ages[n + 1] < Second

\* what is left when they are taken from the front
Within(ages) == [i \in 1..Len(ages) - Outdated(ages) |-> ages[Outdated(ages) + i]]

Rotated == IF fixed_window_start < Second THEN fixed_window_count ELSE 0

Admits ==
  CASE algorithm = "token_bucket" -> Burst > 0 /\ Refilled >= Second
    [] algorithm = "sliding_window" -> Rate > 0 /\ Len(Within(sliding_window)) + 1 <= Rate
    [] algorithm = "fixed_window" -> Rate > 0 /\ Rotated + 1 <= Rate
    [] OTHER -> TRUE
-----------------------------------------------------------------------------
(* _try_acquire_token_bucket, _try_acquire_sliding_window, _try_acquire_fixed_window *)

TokenBucket ==
  /\ algorithm = "token_bucket" /\ Burst > 0
  /\ bucket_tokens' = IF Admits THEN Refilled - Second ELSE Refilled
  /\ bucket_last' = 0
  /\ UNCHANGED <<sliding_window, fixed_window_start, fixed_window_count>>

SlidingWindow ==
  /\ algorithm = "sliding_window" /\ Rate > 0
  /\ sliding_window' = IF Admits THEN Append(Within(sliding_window), 0) ELSE Within(sliding_window)
  /\ UNCHANGED <<bucket_tokens, bucket_last, fixed_window_start, fixed_window_count>>

FixedWindow ==
  /\ algorithm = "fixed_window" /\ Rate > 0
  /\ fixed_window_start' = fixed_window_start % Second
  /\ fixed_window_count' = IF Admits THEN Rotated + 1 ELSE Rotated
  /\ UNCHANGED <<bucket_tokens, bucket_last, sliding_window>>

\* no limiter, or one that lets nothing through
Unchecked ==
  /\ \/ algorithm = "none"
     \/ algorithm = "token_bucket" /\ Burst = 0
     \/ algorithm \in {"sliding_window", "fixed_window"} /\ Rate = 0
  /\ UNCHANGED <<bucket_tokens, bucket_last, sliding_window, fixed_window_start, fixed_window_count>>

Acquire ==
  /\ TokenBucket \/ SlidingWindow \/ FixedWindow \/ Unchecked
  /\ recent' = IF Admits /\ algorithm # "none" THEN Append(recent, 0) ELSE recent
  /\ UNCHANGED algorithm

\* An age stops where nothing more can come of it: a bucket that gains anything is full by then, and
\* the age of a fixed window keeps its remainder.
Tick ==
  /\ bucket_last' = Least(Burst * Second, bucket_last + 1)
  /\ sliding_window' = [i \in DOMAIN sliding_window |-> Least(Second, sliding_window[i] + 1)]
  /\ fixed_window_start' = IF fixed_window_start + 1 < 2 * Second THEN fixed_window_start + 1 ELSE Second
  /\ recent' = Within([i \in DOMAIN recent |-> recent[i] + 1])
  /\ UNCHANGED <<algorithm, bucket_tokens, fixed_window_count>>

Next == Acquire \/ Tick

Spec == Init /\ [][Next]_limiter
-----------------------------------------------------------------------------
TypeOK ==
  /\ algorithm \in Algorithms
  /\ bucket_tokens \in 0..Burst * Second /\ bucket_last \in Nat
  /\ sliding_window \in Seq(0..Second)
  /\ fixed_window_start \in 0..2 * Second - 1 /\ fixed_window_count \in 0..Rate
  /\ recent \in Seq(0..Second - 1)

(* Within any second at most rate calls are admitted by the sliding        *)
(* window, twice the rate by fixed windows, one of which may end within    *)
(* that second, and by the bucket its contents and what it gains meanwhile;*)
(* calls that find nothing left, and pauses, add nothing.                  *)
AdmissionsAreBounded ==
  CASE algorithm = "token_bucket" -> Second * Len(recent) <= Second * Burst + (Second - 1) * Rate
    [] algorithm = "sliding_window" -> Len(recent) <= Rate
    [] algorithm = "fixed_window" -> Len(recent) <= 2 * Rate
    [] OTHER -> TRUE
=============================================================================
