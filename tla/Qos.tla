--------------------------------- MODULE Qos ---------------------------------
(***************************************************************************)
(* server/qos/handler.py: QosHandler.handle_request, with the retries of   *)
(* resilience/retry_policy.py and the cache of resilience/cache.py, behind *)
(* the QosInterceptors of the chain, each with a handler, a cache and      *)
(* locks of its own.  app.py installs two of them.                         *)
(*                                                                         *)
(* A request passes interceptor 1 first.  In each it is looked up in the   *)
(* cache, takes the lock of its key, is looked up again and makes an       *)
(* attempt under a timeout: to pass the next interceptor, after the last   *)
(* to run the method.  Only a lock that is taken, a delay between attempts *)
(* and the method suspend; what lies between them is one step.             *)
(* asyncio.Lock hands itself on in order.                                  *)
(***************************************************************************)
EXTENDS Integers, Sequences, FiniteSets

CONSTANTS
  Requests, Keys, NoKey,
  Interceptors,   \* number of QosInterceptors in the chain
  MaxAttempts,    \* retry.max_attempts, 1 without a retry policy
  Retryable,      \* what is retried, of "error" and "timeout" (retryable_codes)
  Ttl,            \* the _idempotency_ttl_s of each interceptor's handler
  MaxSize,        \* _max_size of the caches
  MaxTime,        \* bound: the clock stops there
  Cancels         \* may clients go away?

ASSUME QosAssumption ==
  /\ IsFiniteSet(Requests)
  /\ NoKey \notin Keys
  /\ Interceptors \in Nat \ {0}
  /\ MaxAttempts \in Nat \ {0}
  /\ Retryable \subseteq {"error", "timeout"}
  /\ Ttl \in [1..Interceptors -> Nat]
  /\ MaxSize \in Nat \ {0}
  /\ MaxTime \in Nat
  /\ Cancels \in BOOLEAN

VARIABLES
  pc,       \* where each request is
  depth,    \* the interceptor it waits or sleeps in
  attempt,  \* its attempt in each interceptor
  key,      \* its idempotency_key, or NoKey
  queue,    \* who waits for the lock of a key, in each interceptor
  cache,    \* the entries of each cache, least recently used first
  now,      \* time.time()
  ran,      \* auxiliary: the runs of the method that ended well, by request and time
  starts,   \* auxiliary: how often each request has started the method
  reply     \* the run each request is answered with, and when

vars == <<pc, depth, attempt, key, queue, cache, now, ran, starts, reply>>
-----------------------------------------------------------------------------
Layers == 1..Interceptors
NoReply == [run |-> 0, at |-> 0]

Init ==
  /\ pc = [r \in Requests |-> "idle"]
  /\ depth = [r \in Requests |-> 1]
  /\ attempt = [r \in Requests |-> [i \in Layers |-> 0]]
  /\ key = [r \in Requests |-> NoKey]
  /\ queue = [i \in Layers |-> [k \in Keys |-> <<>>]]
  /\ cache = [i \in Layers |-> <<>>]
  /\ now = 0
  /\ ran = <<>>
  /\ starts = [r \in Requests |-> 0]
  /\ reply = [r \in Requests |-> NoReply]
-----------------------------------------------------------------------------
(* InMemoryIdempotencyCache *)

ExpiredOneLater(e) == e.expires < now  \* mutant of Expired
Expired(e) == e.expires <= now

Live(C, k) == \E i \in DOMAIN C : C[i].key = k /\ ~Expired(C[i])

At(C, k) == CHOOSE i \in DOMAIN C : C[i].key = k
Entry(C, k) == C[At(C, k)]

\* s without its n-th element
Without(s, n) == [m \in 1..Len(s) - 1 |-> IF m < n THEN s[m] ELSE s[m + 1]]

Drop(C, k) == IF \E i \in DOMAIN C : C[i].key = k THEN Without(C, At(C, k)) ELSE C

GetTakesOut(C, k) == Drop(C, k)  \* mutant of Get: a hit is removed

\* get(): a hit becomes the most recently used, an expired entry is removed
Get(C, k) == IF Live(C, k) THEN Append(Drop(C, k), Entry(C, k)) ELSE Drop(C, k)

\* set(): a new key evicts the least recently used if there is no room
SetWithoutRoom(C, e) == Append(C, e)  \* mutant of Set
Set(C, e) ==
  IF \E i \in DOMAIN C : C[i].key = e.key
  THEN [i \in DOMAIN C |-> IF C[i].key = e.key THEN e ELSE C[i]]
  ELSE Append(IF Len(C) >= MaxSize THEN Tail(C) ELSE C, e)

Remember(i, C, k, run) ==
  IF k = NoKey THEN C ELSE Set(C, [key |-> k, run |-> run, expires |-> now + Ttl[i]])
-----------------------------------------------------------------------------
(* Passing the interceptors *)

Active == {"waiting", "executing", "backoff"}

\* has r passed the lock of interceptor i (and not left it)?
Inside(r, i) ==
  \/ pc[r] = "executing"
  \/ pc[r] = "backoff" /\ i <= depth[r]
  \/ pc[r] = "waiting" /\ i < depth[r]

HoldsLock(r, i, k) == key[r] = k /\ k \in Keys /\ Inside(r, i)

NeverBusy(i, k) == FALSE  \* mutant of Busy: no locks
Busy(i, k) == k \in Keys /\ (queue[i][k] # <<>> \/ \E r \in Requests : HoldsLock(r, i, k))

\* every interceptor above i gets the answer, remembers it and returns it
Answered(r, k, i, C, run) ==
  /\ pc' = [pc EXCEPT ![r] = "done"]
  /\ reply' = [reply EXCEPT ![r] = [run |-> run, at |-> now]]
  /\ cache' = [j \in Layers |-> IF j < i THEN Remember(j, C[j], k, run) ELSE C[j]]

\* r goes on at interceptor i, whose lock it has just been given if i = mine
Descend(r, k, i, mine, waiters) ==
  LET stops == {j \in i..Interceptors : Live(cache[j], k) \/ (j # mine /\ Busy(j, k))}
      last == IF stops = {} THEN Interceptors
              ELSE CHOOSE j \in stops : \A l \in stops : j <= l
      seen == [j \in Layers |-> IF j \in i..last THEN Get(cache[j], k) ELSE cache[j]]
  IN  /\ \/ /\ stops = {}
            /\ pc' = [pc EXCEPT ![r] = "executing"]
            /\ starts' = [starts EXCEPT ![r] = @ + 1]
            /\ cache' = seen
            /\ queue' = waiters
            /\ UNCHANGED <<depth, reply>>
         \/ /\ stops # {} /\ Live(cache[last], k)
            /\ Answered(r, k, last, seen, Entry(cache[last], k).run)
            /\ queue' = waiters
            /\ UNCHANGED <<depth, starts>>
         \/ /\ stops # {} /\ ~Live(cache[last], k)
            /\ pc' = [pc EXCEPT ![r] = "waiting"]
            /\ depth' = [depth EXCEPT ![r] = last]
            /\ queue' = [waiters EXCEPT ![last][k] = Append(@, r)]
            /\ cache' = seen
            /\ UNCHANGED <<starts, reply>>
      /\ UNCHANGED <<now, ran>>

Arrive(r) ==
  /\ pc[r] = "idle"
  /\ \E k \in Keys \cup {NoKey} :
       /\ key' = [key EXCEPT ![r] = k]
       /\ attempt' = [attempt EXCEPT ![r] = [i \in Layers |-> 1]]
       /\ Descend(r, k, 1, 0, queue)

StillQueued(r) == queue  \* mutant of Unqueued

Unqueued(r) ==
  LET leave(Q) == IF \E n \in DOMAIN Q : Q[n] = r
                  THEN Without(Q, CHOOSE n \in DOMAIN Q : Q[n] = r)
                  ELSE Q
  IN  [i \in Layers |-> [k \in Keys |-> leave(queue[i][k])]]

LockAcquiredUnchecked(r) ==  \* mutant of LockAcquired: no second lookup
  LET i == depth[r]
  IN  /\ pc[r] = "waiting"
      /\ Head(queue[i][key[r]]) = r
      /\ \A q \in Requests : ~HoldsLock(q, i, key[r])
      /\ pc' = [pc EXCEPT ![r] = "executing"]
      /\ starts' = [starts EXCEPT ![r] = @ + 1]
      /\ queue' = Unqueued(r)
      /\ UNCHANGED <<depth, attempt, key, cache, now, ran, reply>>

\* the lock is free and r is the first to wait for it
LockAcquired(r) ==
  LET k == key[r]  i == depth[r]
  IN  /\ pc[r] = "waiting"
      /\ Head(queue[i][k]) = r
      /\ \A q \in Requests : ~HoldsLock(q, i, k)
      /\ Descend(r, k, i, i, Unqueued(r))
      /\ UNCHANGED <<key, attempt>>
-----------------------------------------------------------------------------
(* The end of an attempt *)

\* the method returns
Respond(r) ==
  /\ pc[r] = "executing"
  /\ ran' = Append(ran, [request |-> r, at |-> now])
  /\ Answered(r, key[r], Interceptors + 1, cache, Len(ran'))
  /\ UNCHANGED <<depth, attempt, key, queue, now, starts>>

\* error comes out of the attempt in interceptor i: the innermost interceptor
\* with an attempt left retries, the others let it pass
Fail(r, i, error) ==
  LET left == {j \in 1..i : error \in Retryable /\ attempt[r][j] < MaxAttempts}
  IN  /\ \/ left = {} /\ pc' = [pc EXCEPT ![r] = "failed"] /\ UNCHANGED depth
         \/ /\ left # {}
            /\ pc' = [pc EXCEPT ![r] = "backoff"]
            /\ depth' = [depth EXCEPT ![r] = CHOOSE j \in left : \A l \in left : l <= j]
      /\ queue' = Unqueued(r)
      /\ UNCHANGED <<attempt, key, cache, now, ran, starts, reply>>

Raise(r) == pc[r] = "executing" /\ Fail(r, Interceptors, "error")

\* what runs in the attempt of interceptor i is cancelled
Timeout(r, i) ==
  /\ \/ pc[r] = "executing"
     \/ pc[r] \in {"waiting", "backoff"} /\ i < depth[r]
  /\ Fail(r, i, "timeout")

\* the delay after a failed attempt is over
Retry(r) ==
  /\ pc[r] = "backoff"
  /\ attempt' = [attempt EXCEPT ![r] = [i \in Layers |->
       IF i < depth[r] THEN @[i] ELSE IF i = depth[r] THEN @[i] + 1 ELSE 1]]
  /\ Descend(r, key[r], depth[r] + 1, 0, queue)
  /\ UNCHANGED key

\* CancelledError leaves all interceptors
Cancel(r) ==
  /\ Cancels
  /\ pc[r] \in Active
  /\ pc' = [pc EXCEPT ![r] = "gone"]
  /\ queue' = Unqueued(r)
  /\ UNCHANGED <<depth, attempt, key, cache, now, ran, starts, reply>>

Tick ==
  /\ now < MaxTime
  /\ now' = now + 1
  /\ UNCHANGED <<pc, depth, attempt, key, queue, cache, ran, starts, reply>>

Next ==
  \/ \E r \in Requests :
       \/ Arrive(r) \/ LockAcquired(r) \/ Respond(r) \/ Raise(r) \/ Retry(r) \/ Cancel(r)
       \/ \E i \in Layers : Timeout(r, i)
  \/ Tick

Spec == Init /\ [][Next]_vars

\* timers fire and locks are handed on; nothing is said of the method
FairSpec ==
  /\ Spec
  /\ \A r \in Requests :
       WF_vars(LockAcquired(r)) /\ WF_vars(Retry(r)) /\ WF_vars(Timeout(r, 1))
-----------------------------------------------------------------------------
TypeOK ==
  /\ pc \in [Requests -> Active \cup {"idle", "done", "failed", "gone"}]
  /\ depth \in [Requests -> Layers]
  /\ attempt \in [Requests -> [Layers -> 0..MaxAttempts]]
  /\ key \in [Requests -> Keys \cup {NoKey}]
  /\ \A i \in Layers, k \in Keys : queue[i][k] \in Seq(Requests)
  /\ \A i \in Layers : Len(cache[i]) <= MaxSize
  /\ now \in 0..MaxTime
  /\ \A r \in Requests : (pc[r] = "done") = (reply[r].run \in DOMAIN ran)

(* Single flight: of the requests with one key, at most one is past the    *)
(* lock of an interceptor, whatever fails, times out or is cancelled; only *)
(* it runs the method or waits to run it again.                            *)
SingleFlight ==
  \A i \in Layers, k \in Keys, q, r \in Requests :
    HoldsLock(q, i, k) /\ HoldsLock(r, i, k) => q = r

(* The method is not run for a key whose answer the first cache holds: the *)
(* lookup before the lock may be stale when the lock is acquired.          *)
NoRunWhileRemembered ==
  [][\A r \in Requests :
       starts'[r] # starts[r] /\ key'[r] # NoKey => ~Live(cache[1], key'[r])]_vars

\* how old an answer may be that interceptor i gives: the caches from i on
\* may have kept it one after the other
Kept[i \in 1..Interceptors + 1] == IF i > Interceptors THEN 0 ELSE Ttl[i] + Kept[i + 1]

(* "TTL in seconds for idempotency keys" (protocol/v2/qos.py:117): nobody  *)
(* is given an answer older than the caches it passed can have kept it,    *)
(* however expiry, eviction and waits for a lock fall.                     *)
AnswersAreFresh ==
  \A r \in Requests :
    pc[r] = "done" => \/ ran[reply[r].run].request = r
                      \/ reply[r].at - ran[reply[r].run].at < Kept[1]

(* "Deduplicate identical requests" (server/qos/handler.py:5): while the   *)
(* first cache remembers an answer all requests with the key get it, and   *)
(* it forgets one only by expiry or, when it is full, for another key's    *)
(* answer.  See Idempotency.                                               *)
Answers == 1..Cardinality(Requests)
OneAnswer == INSTANCE Idempotency WITH
  NoAnswer <- 0,
  Lifetime <- Ttl[1],
  Room <- MaxSize,
  held <- {cache[1][n] : n \in DOMAIN cache[1]},
  reply <- [r \in Requests |-> reply[r].run]
AnswersAgree == OneAnswer!Spec

(* Every request ends, though its method may hang: timeouts, retries and   *)
(* the locks of others do not keep it for ever.                            *)
RequestsEnd == \A r \in Requests : pc[r] \in Active ~> pc[r] \notin Active
=============================================================================
