CONSTANTS
  None = None
  Transports = {"grpc", "thrift", "jsonrpc", "rest"}
  Inputs <- ClientInputs
  Dicts <- SomeDicts
  MethodCodes = {4000}
  MaxItems = 2
  Fallback = "default"
  Refused <- AnyWireRefuses
  Arrives <- AnyWireArrives
  Told <- AnyWireTells
SPECIFICATION Spec
INVARIANTS
  QosArrives
  IdentityArrives
  StreamArrives
  OutcomeTold
  FailureTold
  RecordTold
CHECK_DEADLOCK FALSE
