---------------------------- MODULE TaskLifecycle ----------------------------
(***************************************************************************)
(* What a client that polls a task may observe, one task at a time: it     *)
(* waits, runs, ends once and keeps that outcome, until the manager        *)
(* forgets it.  A forgotten task never comes back.  Module TaskManager     *)
(* implements this as long as task identifiers are not reused.             *)
(***************************************************************************)
CONSTANT TaskIds

VARIABLE seen   \* what task/status would answer for each task

Outcomes == {"succeeded", "failed", "canceled"}

Init == seen = [t \in TaskIds |-> "unknown"]

\* Submitting one task may make the manager forget others, and end none.
Submitted(t) ==
  /\ seen[t] = "unknown"
  /\ \E dropped \in SUBSET TaskIds :
       seen' = [u \in TaskIds |->
                  IF u = t THEN "pending"
                  ELSE IF u \in dropped /\ seen[u] # "unknown" THEN "forgotten"
                  ELSE seen[u]]

Forgotten(T) ==
  /\ \A t \in T : seen[t] # "unknown"
  /\ seen' = [t \in TaskIds |-> IF t \in T THEN "forgotten" ELSE seen[t]]

Starts(t) == seen[t] = "pending" /\ seen' = [seen EXCEPT ![t] = "running"]

Ends(t) ==
  /\ seen[t] = "running"
  /\ \E outcome \in Outcomes : seen' = [seen EXCEPT ![t] = outcome]

Next ==
  \/ \E t \in TaskIds : Submitted(t) \/ Starts(t) \/ Ends(t)
  \/ \E T \in SUBSET TaskIds : Forgotten(T)

Spec == Init /\ [][Next]_seen
=============================================================================
