----------------------------- MODULE Idempotency -----------------------------
(***************************************************************************)
(* What QosHandler promises to requests with an idempotency key            *)
(* (server/qos/handler.py: "Deduplicate identical requests"): while the    *)
(* answer to a key is remembered, every request with that key gets it.  An *)
(* answer is remembered until it expires, or until another key needs the   *)
(* room and there is none left: it is forgotten at no other time.          *)
(***************************************************************************)
EXTENDS Integers, FiniteSets

CONSTANTS
  Requests, Keys, NoKey, Answers, NoAnswer,
  Lifetime,  \* how long an answer is remembered
  Room       \* for how many answers there is room

VARIABLES
  held,   \* the answers remembered, some of which may have expired
  key,    \* the key of each request, or NoKey
  reply,  \* what each request was answered, or NoAnswer
  now     \* the time

vars == <<held, key, reply, now>>

Init ==
  /\ held = {}
  /\ key = [r \in Requests |-> NoKey]
  /\ reply = [r \in Requests |-> NoAnswer]
  /\ now = 0

Valid(e) == e.expires > now

Asks(r, k) == key[r] \in {NoKey, k} /\ key' = [key EXCEPT ![r] = k]
Gets(r, a) == reply[r] = NoAnswer /\ reply' = [reply EXCEPT ![r] = a]

\* r comes with the key k, is not answered yet, and clears away what has expired
Ask(r, k) ==
  /\ Asks(r, k)
  /\ held' \subseteq held
  /\ \A e \in held \ held' : e.key = k /\ ~Valid(e)
  /\ UNCHANGED <<reply, now>>

\* r is given the answer that is remembered
Repeat(r, e) ==
  /\ Valid(e)
  /\ Asks(r, e.key)
  /\ Gets(r, e.run)
  /\ UNCHANGED <<held, now>>

\* what must go for an answer to k: one other answer, if there is no room left
Evictions(k) ==
  IF Cardinality(held) >= Room /\ \A e \in held : e.key # k THEN {{e} : e \in held} ELSE {{}}

Remember(k, a) ==
  /\ \A e \in held : e.key = k => ~Valid(e)
  /\ \E gone \in Evictions(k) :
       held' = {e \in held \ gone : e.key # k}
                 \cup {[key |-> k, run |-> a, expires |-> now + Lifetime]}

\* r is given an answer that was not remembered, and now it is
Answer(r, k, a) ==
  /\ Asks(r, k)
  /\ Gets(r, a)
  /\ IF k = NoKey THEN UNCHANGED held ELSE Remember(k, a)
  /\ UNCHANGED now

Tick == now' = now + 1 /\ UNCHANGED <<held, key, reply>>

Next ==
  \/ \E r \in Requests, k \in Keys \cup {NoKey} :
       Ask(r, k) \/ \E a \in Answers : Answer(r, k, a)
  \/ \E r \in Requests, e \in held : Repeat(r, e)
  \/ Tick

Spec == Init /\ [][Next]_vars
=============================================================================
