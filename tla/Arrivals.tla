-------------------------------- MODULE Arrivals --------------------------------
(***************************************************************************)
(* How a server calls the request handler, whatever the wire               *)
(* (server/request_handlers): with a request, with the requests of a       *)
(* stream made into one, and as a tenant; or with the error of a           *)
(* conversion instead.                                                     *)
(***************************************************************************)
EXTENDS Protocol

\* mutant of collect: the first request is counted among the items
collectWithFirst(requests) ==
  [request |-> requests[1], stream_items |-> [i \in DOMAIN requests |-> Given(requests[i].data, "empty")]]

\* _collect_stream_request: the data of the later requests become stream_items of the first
collect(requests) ==
  [request |-> requests[1],
   stream_items |-> [i \in 1..Len(requests) - 1 |-> Given(requests[i + 1].data, "empty")]]

Arrived(request) == Done(<<[request |-> request, stream_items |-> <<>>, tenant |-> None]>>, None)

Call(v) == Done(<<[request |-> v.request, stream_items |-> <<>>, tenant |-> v.tenant]>>, None)

Collected(v) ==
  Done(<<[request |-> collect(v.requests).request, stream_items |-> collect(v.requests).stream_items,
          tenant |-> v.tenant]>>, None)

Converted(v) == IF v.raised # None THEN v ELSE Arrived(v.items[1])
=================================================================================
