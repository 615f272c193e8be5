---------------------------- MODULE BreakerPolicy ----------------------------
(***************************************************************************)
(* What a circuit breaker promises its users, with the half-open slots     *)
(* hidden: a three-state machine that changes state only on enough         *)
(* evidence, and only on that of the calls which may give it.  The module  *)
(* header of resilience/circuit_breaker.py (lines 3-13) lists these        *)
(* transitions; module CircuitBreaker is shown to implement this           *)
(* specification.                                                          *)
(*                                                                         *)
(* score is the evidence gathered in the present state: consecutive        *)
(* failures while closed, successes while half-open.  age is the time      *)
(* spent open, counted up to the timeout.  began says in which state of    *)
(* the breaker each running call was admitted.                             *)
(***************************************************************************)
EXTENDS Integers

CONSTANTS Calls,             \* the callers
          FailuresToOpen,    \* consecutive failures that open the breaker
          SuccessesToClose,  \* half-open successes that close it
          OpenTime           \* time it stays open before it probes

VARIABLES state, score, age, began

vars == <<state, score, age, began>>

Become(s) == state' = s /\ score' = 0 /\ age' = 0

Admits(c) == began[c] = "idle" /\ began' = [began EXCEPT ![c] = state']
Ends(c) == began[c] # "idle" /\ began' = [began EXCEPT ![c] = "idle"]
ProbeEnds(c) == began[c] = "half_open" /\ Ends(c)

Init ==
  /\ state = "closed" /\ score = 0 /\ age = 0
  /\ began = [c \in Calls |-> "idle"]
-----------------------------------------------------------------------------
(* Calls begin, but never while the breaker is open, and may end without   *)
(* giving evidence.                                                        *)
Begin(c) == state # "open" /\ Admits(c) /\ UNCHANGED <<state, score, age>>

EndUncounted(c) == Ends(c) /\ UNCHANGED <<state, score, age>>

(* Evidence that is not yet enough, or is forgotten after a success: of    *)
(* any call while closed, but of probes alone while half-open.             *)
CountFailure(c) ==
  /\ state = "closed"
  /\ score + 1 < FailuresToOpen
  /\ score' = score + 1
  /\ Ends(c)
  /\ UNCHANGED <<state, age>>

ForgetFailures(c) ==
  /\ state = "closed"
  /\ score' = 0
  /\ Ends(c)
  /\ UNCHANGED <<state, age>>

CountSuccess(c) ==
  /\ state = "half_open"
  /\ score + 1 < SuccessesToClose
  /\ score' = score + 1
  /\ ProbeEnds(c)
  /\ UNCHANGED <<state, age>>

(* The four transitions of the documentation, and the operator's reset. *)
Trip(c) == state = "closed" /\ score + 1 = FailuresToOpen /\ Become("open") /\ Ends(c)

Wait ==
  /\ state = "open"
  /\ age < OpenTime
  /\ age' = age + 1
  /\ UNCHANGED <<state, score, began>>

Probe(c) == state = "open" /\ age = OpenTime /\ Become("half_open") /\ Admits(c)

Close(c) ==
  state = "half_open" /\ score + 1 = SuccessesToClose /\ Become("closed") /\ ProbeEnds(c)

Reopen(c) == state = "half_open" /\ Become("open") /\ ProbeEnds(c)

Reset == Become("closed") /\ UNCHANGED began

Next ==
  \/ \E c \in Calls :
       \/ Begin(c) \/ EndUncounted(c)
       \/ CountFailure(c) \/ ForgetFailures(c) \/ CountSuccess(c)
       \/ Trip(c) \/ Probe(c) \/ Close(c) \/ Reopen(c)
  \/ Wait \/ Reset

Spec == Init /\ [][Next]_vars
=============================================================================
