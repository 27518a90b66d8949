CONSTANTS
  Callers = {c1, c2}
  Producers = {p1}
  ConsumerIds = {k1}
  Ops = {"rpc"}
  MaxOps = 1
  IdBits = 3
  ResponseKinds = {"success"}
  InboundFaults = {"eof"}
  MaxSinkErrors = 0
  MaxBrokerPings = 0
  MaxDeliveries = 0
  None = None
  c1 = c1
  c2 = c2
  p1 = p1
  k1 = k1
SPECIFICATION Spec
PROPERTY
  FailFastLeavesSocketAlone
