---------------------------------- MODULE Wires ----------------------------------
(***************************************************************************)
(* The transports but Thrift, side by side, as RpcCall takes them.         *)
(***************************************************************************)
EXTENDS GrpcTransport, HttpTransport

WireRefuses(wire, o, input) ==
  IF wire = "grpc" THEN GrpcRefuses(o, input) ELSE HttpRefuses(o, input)

WireArrives(wire, o, input) ==
  CASE wire = "grpc" -> GrpcArrival(o, input)
    [] wire = "jsonrpc" -> JsonRpcArrival(o, input)
    [] OTHER -> RestArrival(o, input)

WireTells(wire, o, d) ==
  CASE wire = "grpc" -> GrpcAnswer(o, d)
    [] wire = "jsonrpc" -> JsonRpcAnswer(o, d)
    [] OTHER -> RestAnswer(o, d)
=============================================================================
