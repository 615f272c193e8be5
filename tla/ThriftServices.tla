----------------------------- MODULE ThriftServices -----------------------------
(***************************************************************************)
(* thrift_v2/AduibRpcService.py, TaskService.py and HealthService.py: the  *)
(* three services of the Thrift wire.                                      *)
(*                                                                         *)
(* A method has a structure for its arguments and one for its result, and  *)
(* a process_ method that reads the first, calls the handler and writes    *)
(* the second.  The process_ methods are alike; they are Process here, and *)
(* the recv_ methods of the clients are Receive.  An exception is a record *)
(* [class, code], as in Protocol.                                          *)
(***************************************************************************)
EXTENDS ThriftTypes

TApplicationException(code) == [class |-> "TApplicationException", code |-> code]

\* what a handler method does: it returns a value or raises an exception
Returns(value) == [value |-> value, raised |-> None]
Raises(exception) == [value |-> None, raised |-> exception]

Method(args, result) == [args |-> args, result |-> result]
-----------------------------------------------------------------------------
Call_args   == {Struct(1, "request", Request)}
Call_result == {Struct(0, "success", Response)}

CallServerStream_args   == {Struct(1, "request", Request)}
CallServerStream_result == {Structs(0, "success", Response)}

CallClientStream_args   == {Structs(1, "requests", Request)}
CallClientStream_result == {Struct(0, "success", Response)}

CallBidirectional_args   == {Structs(1, "requests", Request)}
CallBidirectional_result == {Structs(0, "success", Response)}

\* the process map of the service and its methods
AduibRpcService ==
  [Call              |-> Method(Call_args, Call_result),
   CallServerStream  |-> Method(CallServerStream_args, CallServerStream_result),
   CallClientStream  |-> Method(CallClientStream_args, CallClientStream_result),
   CallBidirectional |-> Method(CallBidirectional_args, CallBidirectional_result)]
-----------------------------------------------------------------------------
Submit_args   == {Struct(1, "request", TaskSubmitRequest)}
Submit_result == {Struct(0, "success", TaskSubmitResponse)}

Query_args   == {Struct(1, "request", TaskQueryRequest)}
Query_result == {Struct(0, "success", TaskQueryResponse)}

Cancel_args   == {Struct(1, "request", TaskCancelRequest)}
Cancel_result == {Struct(0, "success", TaskCancelResponse)}

Subscribe_args   == {Struct(1, "request", TaskSubscribeRequest)}
Subscribe_result == {Structs(0, "success", TaskEvent)}

TaskService ==
  [Submit    |-> Method(Submit_args, Submit_result),
   Query     |-> Method(Query_args, Query_result),
   Cancel    |-> Method(Cancel_args, Cancel_result),
   Subscribe |-> Method(Subscribe_args, Subscribe_result)]
-----------------------------------------------------------------------------
Check_args   == {Struct(1, "request", HealthCheckRequest)}
Check_result == {Struct(0, "success", HealthCheckResponse)}

Watch_args   == {Struct(1, "request", HealthCheckRequest)}
Watch_result == {Structs(0, "success", HealthCheckResponse)}

HealthService ==
  [Check |-> Method(Check_args, Check_result),
   Watch |-> Method(Watch_args, Watch_result)]
-----------------------------------------------------------------------------
\* send_: the one argument of every method is called request, or requests
Arguments(method, value) ==
  LET name == CHOOSE n \in NamesOf(method.args) : TRUE
  IN  Write(method.args, New(method.args, [n \in {name} |-> value]))

\* what the handler method is called with
Argument(method, wire) == Read(method.args, wire)[CHOOSE n \in NamesOf(method.args) : TRUE]

\* an exception of the transport is raised again and the connection ends without an answer;
\* another exception than the wire's own is not told
Process(method, done) ==
  CASE done.raised = None ->
         [type |-> "REPLY", body |-> Write(method.result, New(method.result, [success |-> done.value]))]
    [] done.raised # None /\ done.raised.class = "TTransportException" ->
         [type |-> "NOTHING", body |-> done.raised]
    [] done.raised # None /\ done.raised.class = "TApplicationException" ->
         [type |-> "EXCEPTION", body |-> done.raised]
    [] OTHER ->
         [type |-> "EXCEPTION", body |-> TApplicationException("INTERNAL_ERROR")]

Receive(method, reply) ==
  IF reply.type # "REPLY" THEN Raises(reply.body)
  ELSE LET result == Read(method.result, reply.body)
       IN  IF result.success # None THEN Returns(result.success)
           ELSE Raises(TApplicationException("MISSING_RESULT"))
=============================================================================
