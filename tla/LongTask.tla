------------------------------- MODULE LongTask -------------------------------
(***************************************************************************)
(* How DefaultRequestHandler serves calls, some of them marked as long     *)
(* tasks: what it dispatches when a client calls, and what it dispatches   *)
(* when the task it created for that call runs.  The task table itself is  *)
(* module TaskManager; here a task is only a request whose runner waits.   *)
(*                                                                         *)
(* The coroutine given to the task manager is                              *)
(*     lambda: self.on_message(context.request, context.server_context)    *)
(* with the request that was submitted, its metadata included.             *)
(***************************************************************************)
EXTENDS FiniteSets

CONSTANTS
  Requests,      \* the requests clients send
  LongRequests   \* those whose metadata says long_task, with method task/submit

VARIABLES
  called,        \* requests that were answered: with a result or a task_id
  waiting,       \* requests of which a task waits for its runner to start
  succeeded,     \* requests of which some task has succeeded
  executed       \* requests whose target method has been executed

vars == <<called, waiting, succeeded, executed>>

Init == called = {} /\ waiting = {} /\ succeeded = {} /\ executed = {}

(* _dispatch_unary, while the tasks in others wait: _is_long_task sends    *)
(* the request to _handle_task_method, whose SUBMIT branch creates a task; *)
(* any other request reaches the executor or the service of its method.    *)
Dispatch(req, others) ==
  IF req \in LongRequests
  THEN waiting' = others \cup {req} /\ UNCHANGED executed
  ELSE executed' = executed \cup {req} /\ waiting' = others

ClientCalls(req) ==
  /\ req \notin called
  /\ called' = called \cup {req}
  /\ Dispatch(req, waiting)
  /\ UNCHANGED succeeded

(* The runner awaits on_message of the same request; its task succeeds     *)
(* with the response, whatever that response says.                         *)
RunnerRuns(req) ==
  /\ req \in waiting
  /\ Dispatch(req, waiting \ {req})
  /\ succeeded' = succeeded \cup {req}
  /\ UNCHANGED called

Next == \E req \in Requests : ClientCalls(req) \/ RunnerRuns(req)

\* the event loop runs the runners that are ready
Spec == Init /\ [][Next]_vars /\ \A req \in Requests : WF_vars(RunnerRuns(req))

(* README.md:45 and :325: a submitted call is executed in the background.  *)
TargetIsExecuted ==
  \A req \in Requests : req \in called ~> req \in executed
=============================================================================
