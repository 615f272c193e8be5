--------------------------- MODULE HealthRegistry ---------------------------
(***************************************************************************)
(* discover/registry/health_aware_registry.py: the health cache of the     *)
(* instances of one service, the loop that checks them one after another,  *)
(* and the checks that clients make on the way to a call                   *)
(* (client/transports/health_aware.py, _refresh_health_registry), which    *)
(* update the same cache.                                                  *)
(*                                                                         *)
(* A check is a request to the instance.  It is sent, then the instance    *)
(* answers it or cannot, and then, later, the answer reaches the checker,  *)
(* which applies it to the cache at once.  Checks of different checkers    *)
(* overlap, and an old answer may be applied after a newer one.            *)
(***************************************************************************)
EXTENDS Integers, Sequences, FiniteSets

CONSTANTS
  Instances,
  Order,     \* the order in which the base registry lists them
  Raising,   \* instances whose check raises; that of DefaultHealthChecker never does
  Clients,   \* calls in progress, each of which refreshes the cache
  healthy_threshold, unhealthy_threshold

ASSUME HealthAssumption ==
  /\ IsFiniteSet(Instances) /\ IsFiniteSet(Clients)
  /\ Order \in Seq(Instances) /\ \A i \in Instances : \E n \in DOMAIN Order : Order[n] = i
  /\ Raising \subseteq Instances
  /\ healthy_threshold \in Int /\ unhealthy_threshold \in Int

Loop == "loop"
Checkers == Clients \cup {Loop}
Results == {"healthy", "unhealthy"}    \* DEGRADED and UNKNOWN count as unhealthy

VARIABLES
  registered,      \* what the base registry lists
  status,          \* HealthAwareServiceInstance.status; "absent": not in the cache
  successes,       \* consecutive_successes
  failures,        \* consecutive_failures
  last_check,
  fresh,           \* instances whose last_check is younger than the cache TTL
  looping,         \* does _check_task run?
  todo,            \* what is left of the loop's pass, as positions in Order
  check,           \* the request of each checker to each instance
  up,              \* environment: does the instance answer?
  down_since       \* auxiliary: was it down since a success was last applied?

cache == <<status, successes, failures, last_check>>
vars == <<registered, cache, fresh, looping, todo, check, up, down_since>>

HealthyAfter == IF healthy_threshold > 1 THEN healthy_threshold ELSE 1
UnhealthyAfter == IF unhealthy_threshold > 1 THEN unhealthy_threshold ELSE 1

Init ==
  /\ registered = {}
  /\ status = [i \in Instances |-> "absent"]
  /\ successes = [i \in Instances |-> 0]
  /\ failures = [i \in Instances |-> 0]
  /\ last_check = [i \in Instances |-> "none"]
  /\ fresh = {}
  /\ looping = FALSE
  /\ todo = {}
  /\ check = [c \in Checkers |-> [i \in Instances |-> "none"]]
  /\ up \in [Instances -> BOOLEAN]
  /\ down_since = [i \in Instances |-> ~up[i]]
-----------------------------------------------------------------------------
(* list_healthy_instances *)

\* an instance without an entry, or UNKNOWN after a success, is listed as well
Listable(i) ==
  \/ status[i] \in {"absent", "healthy"}
  \/ status[i] = "unknown" /\ last_check[i] = "healthy"

Healthy == {i \in registered : Listable(i)}

Listed == IF Healthy # {} THEN Healthy ELSE registered  \* allow_unhealthy_fallback
-----------------------------------------------------------------------------
(* _check_instance, after the answer; a count stops at its threshold,      *)
(* where only its having reached it matters                                *)

CountedEarly(count, threshold, i) ==  \* mutant of Counted: off by one
  [count EXCEPT ![i] = IF @ + 1 < threshold THEN @ + 2 ELSE threshold]

Counted(count, threshold, i) ==
  [count EXCEPT ![i] = IF @ < threshold THEN @ + 1 ELSE @]

NotCleared(count, i) == count  \* mutant of Cleared

ClearedByOne(count, i) == [count EXCEPT ![i] = @ - 1]  \* mutant of Cleared

Cleared(count, i) == [count EXCEPT ![i] = 0]

JudgeOnce(i, new, reached) ==  \* mutant of Judge: a status, once known, is kept
  status' = [status EXCEPT ![i] = IF @ \notin {"absent", "unknown"} THEN @
                                  ELSE IF reached THEN new ELSE "unknown"]

Judge(i, new, reached) ==
  status' = [status EXCEPT ![i] = IF reached THEN new
                                  ELSE IF @ = "absent" THEN "unknown" ELSE @]

Apply(i, result) ==
  /\ last_check' = [last_check EXCEPT ![i] = result]
  /\ fresh' = fresh \cup {i}
  /\ \/ /\ result = "healthy"
        /\ successes' = Counted(successes, HealthyAfter, i)
        /\ failures' = Cleared(failures, i)
        /\ Judge(i, "healthy", successes'[i] >= HealthyAfter)
        /\ down_since' = [down_since EXCEPT ![i] = ~up[i]]
     \/ /\ result = "unhealthy"
        /\ failures' = Counted(failures, UnhealthyAfter, i)
        /\ successes' = Cleared(successes, i)
        /\ Judge(i, "unhealthy", failures'[i] >= UnhealthyAfter)
        /\ UNCHANGED down_since
-----------------------------------------------------------------------------
(* Checks *)

Outstanding(c) == {i \in Instances : check[c][i] # "none"}

Ask(c, S) ==
  check' = [check EXCEPT ![c] = [i \in Instances |-> IF i \in S THEN "asked" ELSE @[i]]]

\* _refresh_health_registry: asyncio.gather over the instances without a fresh result
Refresh(c) ==
  /\ Outstanding(c) = {}
  /\ registered \ fresh # {}
  /\ Ask(c, registered \ fresh)
  /\ UNCHANGED <<registered, cache, fresh, looping, todo, up, down_since>>

\* where in the list the instance is that a pass with S left checks now
First(S) == CHOOSE n \in S : \A m \in S : n <= m

\* _health_check_loop: awake from its sleep, it lists the instances and checks the first
Pass ==
  /\ looping /\ todo = {}
  /\ registered # {}
  /\ todo' = {n \in DOMAIN Order : Order[n] \in registered}
  /\ Ask(Loop, {Order[First(todo')]})
  /\ UNCHANGED <<registered, cache, fresh, looping, up, down_since>>

\* external: the instance answers, or refuses, or the connection fails
Answer(c, i) ==
  /\ check[c][i] = "asked"
  /\ i \notin Raising
  /\ check' = [check EXCEPT ![c][i] = IF up[i] THEN "healthy" ELSE "unhealthy"]
  /\ UNCHANGED <<registered, cache, fresh, looping, todo, up, down_since>>

\* check[c] once its request to i is over; the loop moves on to the next in line
NextCheck(c, i, rest) ==
  check' = [check EXCEPT ![c] = [j \in Instances |->
              IF c = Loop /\ rest # {} /\ j = Order[First(rest)] THEN "asked"
              ELSE IF j = i THEN "none" ELSE @[j]]]

Checked(c, i) ==
  /\ check[c][i] \in Results
  /\ Apply(i, check[c][i])
  /\ todo' = IF c = Loop THEN todo \ {First(todo)} ELSE todo
  /\ NextCheck(c, i, todo')
  /\ UNCHANGED <<registered, looping, up>>

\* the loop gives its pass up and sleeps; gather keeps the exception of a client's check
Raises(c, i) ==
  /\ check[c][i] = "asked"
  /\ i \in Raising
  /\ todo' = IF c = Loop THEN {} ELSE todo
  /\ NextCheck(c, i, {})
  /\ UNCHANGED <<registered, cache, fresh, looping, up, down_since>>

\* the client's call is cancelled, and with it gather and its checks
Abandon(c) ==
  /\ Outstanding(c) # {}
  /\ check' = [check EXCEPT ![c] = [i \in Instances |-> "none"]]
  /\ UNCHANGED <<registered, cache, fresh, looping, todo, up, down_since>>

\* the cache TTL of the last result is over
Age(i) ==
  /\ i \in fresh
  /\ fresh' = fresh \ {i}
  /\ UNCHANGED <<registered, cache, looping, todo, check, up, down_since>>
-----------------------------------------------------------------------------
Start ==
  /\ ~looping
  /\ looping' = TRUE
  /\ UNCHANGED <<registered, cache, fresh, todo, check, up, down_since>>

\* the task is cancelled in its sleep or in a check
Stop ==
  /\ looping
  /\ looping' = FALSE
  /\ todo' = {}
  /\ check' = [check EXCEPT ![Loop] = [i \in Instances |-> "none"]]
  /\ UNCHANGED <<registered, cache, fresh, up, down_since>>

Register(i) ==
  /\ i \notin registered
  /\ registered' = registered \cup {i}
  /\ UNCHANGED <<cache, fresh, looping, todo, check, up, down_since>>

\* external: the base registry lists the instance no more; its cache entry stays
Unregister(i) ==
  /\ i \in registered
  /\ registered' = registered \ {i}
  /\ UNCHANGED <<cache, fresh, looping, todo, check, up, down_since>>

\* external: an instance goes down or comes up
Toggle(i) ==
  /\ up' = [up EXCEPT ![i] = ~@]
  /\ down_since' = [down_since EXCEPT ![i] = @ \/ up[i]]
  /\ UNCHANGED <<registered, cache, fresh, looping, todo, check>>

Next ==
  \/ Pass \/ Start \/ Stop
  \/ \E c \in Clients : Refresh(c) \/ Abandon(c)
  \/ \E c \in Checkers, i \in Instances : Answer(c, i) \/ Checked(c, i) \/ Raises(c, i)
  \/ \E i \in Instances : Age(i) \/ Register(i) \/ Unregister(i) \/ Toggle(i)

Spec == Init /\ [][Next]_vars

\* a loop that runs comes round, and checks end
FairSpec ==
  /\ Spec
  /\ WF_vars(Pass)
  /\ \A c \in Checkers, i \in Instances :
       WF_vars(Answer(c, i)) /\ WF_vars(Checked(c, i)) /\ WF_vars(Raises(c, i))
-----------------------------------------------------------------------------
TypeOK ==
  /\ registered \subseteq Instances
  /\ status \in [Instances -> {"absent", "unknown", "healthy", "unhealthy"}]
  /\ successes \in [Instances -> 0..HealthyAfter]
  /\ failures \in [Instances -> 0..UnhealthyAfter]
  /\ last_check \in [Instances -> Results \cup {"none"}]
  /\ fresh \subseteq Instances
  /\ looping \in BOOLEAN
  /\ todo \subseteq DOMAIN Order
  /\ check \in [Checkers -> [Instances -> Results \cup {"none", "asked"}]]
  /\ up \in [Instances -> BOOLEAN]
  /\ down_since \in [Instances -> BOOLEAN]

(* The counters and the status of an entry agree, whichever checkers       *)
(* update it: the last result decides which counter runs, the status is    *)
(* the one whose threshold was reached last, and before either is, the     *)
(* instance is UNKNOWN (_check_instance).                                  *)
StatusFollowsCounts ==
  \A i \in Instances :
    /\ (last_check[i] = "none") = (status[i] = "absent")
    /\ (successes[i] > 0) = (last_check[i] = "healthy")
    /\ (failures[i] > 0) = (last_check[i] = "unhealthy")
    /\ status[i] = "unhealthy" => successes[i] < HealthyAfter
    /\ status[i] = "healthy" => failures[i] < UnhealthyAfter
    /\ status[i] \in {"unknown", "absent"} =>
         successes[i] < HealthyAfter /\ failures[i] < UnhealthyAfter

(* No false alarm: an instance is marked UNHEALTHY only if it was down at  *)
(* some time since it was last seen healthy.  Answers delayed in flight    *)
(* cannot outvote a newer success, provided that no more checkers than     *)
(* unhealthy_threshold are at work at a time.                              *)
NoFalseAlarm ==
  [][\A i \in Instances :
       status[i] # "unhealthy" /\ status'[i] = "unhealthy" =>
         down_since[i] \/ Cardinality(Checkers) > UnhealthyAfter]_vars

\* instances of the pass before the first one whose check raises
Reached == {i \in Instances : \E n \in DOMAIN Order :
              Order[n] = i /\ \A m \in 1..n : Order[m] \notin Raising}

(* While the loop runs, an instance that stays down is at last kept out of *)
(* the list, unless nothing else could be listed, and one that stays up is *)
(* at last in it, however often clients check it too.                      *)
DownIsDelisted ==
  \A i \in Reached :
    <>[](looping /\ i \in registered /\ ~up[i]) => <>[](i \in Listed => Healthy = {})

UpIsListed ==
  \A i \in Reached :
    <>[](looping /\ i \in registered /\ up[i]) => <>[](i \in Healthy)
=============================================================================
