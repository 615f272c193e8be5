------------------------------ MODULE Bulkhead ------------------------------
(***************************************************************************)
(* resilience/bulkhead.py: Bulkhead, a semaphore behind a bounded queue.   *)
(*                                                                         *)
(* A call leaves the event loop in three places: put() on a full queue,    *)
(* acquire() of a locked semaphore, and the callable itself.  What happens *)
(* between two of them is one step.  The put is the only wait with a       *)
(* timeout.  Queue and Semaphore are those of asyncio (Python 3.12): a put *)
(* into a queue with room does not suspend, a woken putter may find the    *)
(* queue full again, a semaphore serves its waiters in order.  max_wait is *)
(* positive: with 0, wait_for cancels every put before it has started and  *)
(* the bulkhead refuses every call.                                        *)
(***************************************************************************)
EXTENDS Integers, Sequences, FiniteSets

CONSTANTS
  Callers,        \* tasks that call execute(), or acquire() and release()
  max_concurrent, queue_depth,   \* of the BulkheadConfig, as configured
  Cancels         \* may callers be cancelled?

ASSUME BulkheadAssumption ==
  /\ IsFiniteSet(Callers)
  /\ max_concurrent \in Int /\ queue_depth \in Int
  /\ Cancels \in BOOLEAN

VARIABLES
  pc,       \* where each caller is
  waiters,  \* _semaphore._waiters: callers waiting, or granted and not resumed
  value,    \* _semaphore._value
  items,    \* the size of _queue
  active,   \* _active
  lost      \* auxiliary: placeholders whose caller was cancelled

vars == <<pc, waiters, value, items, active, lost>>
-----------------------------------------------------------------------------
AtLeast(low, n) == IF n < low THEN low ELSE n

MaxConcurrent == AtLeast(1, max_concurrent)
QueueDepth == AtLeast(0, queue_depth)

Outside == {"idle", "refused"}
Places == Outside \cup {"putting", "waiting", "granted", "running"}
In(place) == {c \in Callers : pc[c] = place}

QueueNeverFull == FALSE  \* mutant of QueueFull
QueueFull == QueueDepth > 0 /\ items >= QueueDepth

Locked == value = 0 \/ waiters # <<>>

Before(d, c) == \E i, j \in DOMAIN waiters : i < j /\ waiters[i] = d /\ waiters[j] = c

WokenNone(n, P) == {}      \* mutant of Woken

\* _wake_up_next, n times: the first n waiters of P are granted a slot
Woken(n, P) == {c \in P : Cardinality({d \in P : Before(d, c)}) < n}

At(c) == CHOOSE i \in DOMAIN waiters : waiters[i] = c
Without(c) == [i \in 1..Len(waiters) - 1 |-> IF i < At(c) THEN waiters[i] ELSE waiters[i + 1]]

Init ==
  /\ pc = [c \in Callers |-> "idle"]
  /\ waiters = <<>>
  /\ value = MaxConcurrent
  /\ items = 0
  /\ active = 0
  /\ lost = 0
-----------------------------------------------------------------------------
(* _acquire_slot *)

\* the semaphore and _increment_active, once the placeholder is in the queue
Put(c) ==
  /\ items' = items + 1
  /\ UNCHANGED lost
  /\ \/ /\ Locked
        /\ waiters' = Append(waiters, c)
        /\ pc' = [pc EXCEPT ![c] = "waiting"]
        /\ UNCHANGED <<value, active>>
     \/ /\ ~Locked
        /\ value' = value - 1
        /\ active' = active + 1
        /\ pc' = [pc EXCEPT ![c] = "running"]
        /\ UNCHANGED waiters

Goto(c, place) ==
  /\ pc' = [pc EXCEPT ![c] = place]
  /\ UNCHANGED <<waiters, value, items, active, lost>>

\* execute() or acquire()
Call(c) ==
  /\ pc[c] \in Outside
  /\ \/ QueueFull /\ Goto(c, "putting")
     \/ ~QueueFull /\ Put(c)

AcquireInstead(c) == Call(c)  \* mutant of TryAcquire

TryAcquire(c) ==
  /\ pc[c] \in Outside
  /\ \/ (Locked \/ QueueFull) /\ Goto(c, "refused")
     \/ ~Locked /\ ~QueueFull /\ Put(c)

WokenPutter(c) == pc[c] = "putting" /\ ~QueueFull /\ Put(c)

PutTimeout(c) == pc[c] = "putting" /\ Goto(c, "refused")

\* acquire() resumes; with a free slot left it wakes those behind it
Resume(c) ==
  LET woken == Woken(value, In("waiting"))
  IN  /\ pc[c] = "granted"
      /\ waiters' = Without(c)
      /\ pc' = [d \in Callers |-> IF d = c THEN "running"
                                  ELSE IF d \in woken THEN "granted" ELSE pc[d]]
      /\ value' = value - Cardinality(woken)
      /\ active' = active + 1
      /\ UNCHANGED <<items, lost>>
-----------------------------------------------------------------------------
(* _release_slot and _decrement_active *)

ReleaseButQueue(c) ==  \* mutant of Release: the placeholder stays
  LET woken == Woken(1, In("waiting"))
  IN  /\ pc' = [d \in Callers |-> IF d = c THEN "idle"
                                  ELSE IF d \in woken THEN "granted" ELSE pc[d]]
      /\ value' = value + 1 - Cardinality(woken)
      /\ active' = AtLeast(0, active - 1)
      /\ UNCHANGED <<items, waiters, lost>>

ReleaseTwice(c) ==  \* mutant of Release: by execute() and by its caller
  LET woken == Woken(2, In("waiting"))
  IN  /\ pc' = [d \in Callers |-> IF d = c THEN "idle"
                                  ELSE IF d \in woken THEN "granted" ELSE pc[d]]
      /\ value' = value + 2 - Cardinality(woken)
      /\ items' = AtLeast(0, items - 2)
      /\ active' = AtLeast(0, active - 2)
      /\ UNCHANGED <<waiters, lost>>

Release(c) ==
  LET woken == Woken(1, In("waiting"))
  IN  /\ pc' = [d \in Callers |-> IF d = c THEN "idle"
                                  ELSE IF d \in woken THEN "granted" ELSE pc[d]]
      /\ value' = value + 1 - Cardinality(woken)
      /\ items' = AtLeast(0, items - 1)
      /\ active' = AtLeast(0, active - 1)
      /\ UNCHANGED <<waiters, lost>>

\* the callable returned, raised or was cancelled
Finish(c) == pc[c] = "running" /\ Release(c)

\* CancelledError out of put(): nothing to undo
CancelPut(c) == Cancels /\ pc[c] = "putting" /\ Goto(c, "idle")

\* CancelledError out of acquire(): its slot is handed on, the placeholder stays
CancelWait(c) ==
  LET back == IF pc[c] = "granted" THEN value + 1 ELSE value
      woken == Woken(back, In("waiting") \ {c})
  IN  /\ Cancels
      /\ pc[c] \in {"waiting", "granted"}
      /\ waiters' = Without(c)
      /\ pc' = [d \in Callers |-> IF d = c THEN "idle"
                                  ELSE IF d \in woken THEN "granted" ELSE pc[d]]
      /\ value' = back - Cardinality(woken)
      /\ lost' = lost + 1
      /\ UNCHANGED <<items, active>>

Next == \E c \in Callers :
  \/ Call(c) \/ TryAcquire(c) \/ WokenPutter(c) \/ PutTimeout(c) \/ Resume(c)
  \/ Finish(c) \/ CancelPut(c) \/ CancelWait(c)

Spec == Init /\ [][Next]_vars

\* timers fire and granted waiters resume
Scheduled == \A c \in Callers : WF_vars(PutTimeout(c)) /\ WF_vars(Resume(c))

\* ... and the callables end
FairSpec == Spec /\ Scheduled /\ \A c \in Callers : WF_vars(Finish(c))
-----------------------------------------------------------------------------
TypeOK ==
  /\ pc \in [Callers -> Places]
  /\ waiters \in Seq(In("waiting") \cup In("granted"))
  /\ value \in Nat
  /\ items \in Nat /\ (QueueDepth > 0 => items <= QueueDepth)
  /\ active \in Nat
  /\ lost \in Nat

(* A slot of the semaphore is free, granted to a waiter or taken by a      *)
(* running call, so at most MaxConcurrent calls run, whatever is           *)
(* cancelled; _active counts those that run (execute, _release_slot).      *)
SlotsAddUp ==
  /\ value + Cardinality(In("granted")) + Cardinality(In("running")) = MaxConcurrent
  /\ active = Cardinality(In("running"))

(* A placeholder in the queue belongs to a call that waits or runs, or to  *)
(* one cancelled while it waited for the semaphore; no other path through  *)
(* _acquire_slot and _release_slot leaves one behind or takes one too many.*)
(* So queue_depth bounds the running calls too, and lost ones for ever.    *)
PlaceholdersAddUp ==
  items = Cardinality(In("waiting")) + Cardinality(In("granted"))
          + Cardinality(In("running")) + lost

(* Every call ends if the callables end, with the result or BulkheadError, *)
(* although putters may be overtaken and waiters cancelled.                *)
EveryCallEnds == \A c \in Callers : pc[c] \notin Outside ~> pc[c] \in Outside
=============================================================================
